---- MODULE Spec2Model ----
(***************************************************************************)
(* A model of the forked state store (internal/simulator/fork.go), its     *)
(* persistent cache (internal/storage/cache.go), the EVM state-DB adapter, *)
(* the transaction executor and the bundle simulator of mev-searcher.      *)
(*                                                                         *)
(* A StateFork is modelled as one record holding the fields of the Go      *)
(* struct; the functions of the Go code are operators from a fork record   *)
(* (and their arguments) to a result record holding the fork afterwards    *)
(* and the returned values.  The actions are calls of these functions.     *)
(*                                                                         *)
(* Go maps are functions with a finite domain.  The code never mutates a   *)
(* *big.Int or a []byte in place (every setter stores a fresh copy, every  *)
(* snapshot that becomes the cache is removed from the stack in the same   *)
(* call), so no two live references share a StateCache and value           *)
(* semantics are exact.                                                    *)
(***************************************************************************)
EXTENDS Integers, Sequences, FiniteSets, TLC

VARIABLES
    fork,       \* the StateFork: blockNumber, cache, lru*, db, stats, snapshots
    ret,        \* the last call on the fork and what it returned
    steps,      \* number of calls made so far (bounds the exploration)
    touched,    \* history: keys written by a Set* / SetCode on the current fork
    taken,      \* history: tier-1 contents when each live handle was returned
    revoked,    \* history: handle values invalidated by a successful revert
    stale,      \* history: revoked handle values not returned by Snapshot since
    seen,       \* history: storage key -> value of its first successful read
    fresh,      \* history: storage keys read successfully since the last revert
    exec,       \* the bundle simulator and executor: position, locals, results
    hist,       \* history: the fork before the bundle, per-transaction tier-1 log
    store,      \* a CacheDB used directly: db, last call, history of writes
    calc,       \* the arbitrage package: inputs and result of the last call
    remote      \* what the remote answered to the last PrewarmFromTrace

vars == <<fork, ret, steps, touched, taken, revoked, stale, seen, fresh, exec, hist,
          store, calc, remote>>

---------------------------------------------------------------------------
(* Bounds of the model *)

MaxSteps == 5
MaxSnapshots == 2
HashLength == 1
UintBits == 6
MaxBundle == 2
MaxEvmSteps == 3
MaxFrames == 1
MaxStoreOps == 4
MaxTxs == 2
MaxLogs == 3
MaxAmountIn == 24
MaxReserve == 20
MaxSearch == 9
MaxCalls == 4
MaxRows == 3
MaxOps == 3
MaxWords == 5
MaxPrewarms == 1

(* Accounts exist on the chain; the calls made directly on the fork use    *)
(* the addresses Addrs.                                                    *)
Accounts == {"A", "B"}
Addrs == {"A"}
Slots == {"s"}
Blocks == {7}

(* Values the executor writes. *)
BalanceWrites == {0, 12}
NonceWrites == {3}
CodeWrites == {<<>>, <<9>>}
StorageWrites == {5}

---------------------------------------------------------------------------
(* The remote chain: immutable historical state per block.  "A" is a       *)
(* contract (non-empty code), "B" an externally owned account.             *)

ChainBalance(block, addr) == IF addr = "A" THEN 40 + block ELSE 0
ChainNonce(block, addr) == IF addr = "A" THEN 1 ELSE block
ChainCode(block, addr) == IF addr = "A" THEN <<96, block>> ELSE <<>>
ChainStorage(block, addr, slot) == IF addr = "A" THEN block ELSE 0

---------------------------------------------------------------------------
(* Go maps *)

EmptyMap == [k \in {} |-> 0]

Put(m, k, v) == [x \in DOMAIN m \cup {k} |-> IF x = k THEN v ELSE m[x]]

Has(m, k) == k \in DOMAIN m

---------------------------------------------------------------------------
(* Conversions used by the persistent store *)

(* big.Int.String(): the decimal digits of a non-negative integer. *)
RECURSIVE BigString(_)
BigString(n) == IF n < 10 THEN <<n>> ELSE Append(BigString(n \div 10), n % 10)

(* big.Int.SetString(s, 10) *)
RECURSIVE BigSetString(_)
BigSetString(s) ==
    IF Len(s) = 0 THEN 0
    ELSE 10 * BigSetString(SubSeq(s, 1, Len(s) - 1)) + s[Len(s)]

(* common.Hash.Hex(): 2*HashLength hex digits, most significant first (the *)
(* "0x" prefix is written by Hex and stripped by HexToHash).               *)
RECURSIVE HexDigits(_, _)
HexDigits(n, width) ==
    IF width = 0 THEN <<>>
    ELSE Append(HexDigits(n \div 16, width - 1), n % 16)

HashHex(h) == HexDigits(h, 2 * HashLength)

(* common.HexToHash *)
RECURSIVE HexValue(_)
HexValue(s) ==
    IF Len(s) = 0 THEN 0
    ELSE 16 * HexValue(SubSeq(s, 1, Len(s) - 1)) + s[Len(s)]

RECURSIVE Pow(_, _)
Pow(b, e) == IF e = 0 THEN 1 ELSE b * Pow(b, e - 1)

HexToHash(s) == HexValue(s) % Pow(256, HashLength)

(* common.BytesToHash on the 32-byte word eth_getStorageAt returns *)
BytesToHash(word) == word % Pow(256, HashLength)

---------------------------------------------------------------------------
(* storage.CacheDB: the SQLite tables account_state and storage_state.     *)
(* A nullable column holds <<>> (NULL) or <<v>>.                           *)

NULL == <<>>

AccountColumns == {"block_number", "address", "balance", "nonce", "code"}

NewCacheDB == [account_state |-> EmptyMap, storage_state |-> EmptyMap]

(* INSERT OR REPLACE INTO account_state (block_number, address, <col>):    *)
(* the row of the primary key is deleted and a row holding only the given  *)
(* columns is inserted; the columns not named get their default, NULL.     *)
InsertOrReplaceAccount(d, block, addr, cols) ==
    [d EXCEPT !.account_state =
        Put(@, <<block, addr>>,
            [balance |-> IF Has(cols, "balance") THEN <<cols["balance"]>> ELSE NULL,
             nonce   |-> IF Has(cols, "nonce") THEN <<cols["nonce"]>> ELSE NULL,
             code    |-> IF Has(cols, "code") THEN <<cols["code"]>> ELSE NULL])]

(* Scanning NULL into a string fails: a miss. *)
CacheDB_GetBalance(d, block, addr) ==
    IF ~Has(d.account_state, <<block, addr>>) THEN [ok |-> FALSE, val |-> 0]
    ELSE LET col == d.account_state[<<block, addr>>].balance IN
         IF col = NULL THEN [ok |-> FALSE, val |-> 0]
         ELSE [ok |-> TRUE, val |-> BigSetString(col[1])]

CacheDB_SetBalance(d, block, addr, balance) ==
    InsertOrReplaceAccount(d, block, addr, [balance |-> BigString(balance)])

(* The query selects on a column named block_numer, which account_state    *)
(* does not have: the statement fails, and any error is a miss.            *)
CacheDB_GetNonce(d, block, addr) ==
    IF "block_numer" \notin AccountColumns THEN [ok |-> FALSE, val |-> 0]
    ELSE IF ~Has(d.account_state, <<block, addr>>) THEN [ok |-> FALSE, val |-> 0]
    ELSE LET col == d.account_state[<<block, addr>>].nonce IN
         IF col = NULL THEN [ok |-> FALSE, val |-> 0]
         ELSE [ok |-> TRUE, val |-> col[1]]

CacheDB_SetNonce(d, block, addr, nonce) ==
    InsertOrReplaceAccount(d, block, addr, [nonce |-> nonce])

(* Scanning NULL into a []byte succeeds and yields nil: a row written by   *)
(* SetBalance or SetNonce is a hit with empty code.                        *)
CacheDB_GetCode(d, block, addr) ==
    IF ~Has(d.account_state, <<block, addr>>) THEN [ok |-> FALSE, val |-> <<>>]
    ELSE LET col == d.account_state[<<block, addr>>].code IN
         IF col = NULL THEN [ok |-> TRUE, val |-> <<>>]
         ELSE [ok |-> TRUE, val |-> col[1]]

CacheDB_SetCode(d, block, addr, code) ==
    InsertOrReplaceAccount(d, block, addr, [code |-> code])

CacheDB_GetStorage(d, block, addr, slot) ==
    IF ~Has(d.storage_state, <<block, addr, slot>>) THEN [ok |-> FALSE, val |-> 0]
    ELSE [ok |-> TRUE, val |-> HexToHash(d.storage_state[<<block, addr, slot>>])]

CacheDB_SetStorage(d, block, addr, slot, value) ==
    [d EXCEPT !.storage_state = Put(@, <<block, addr, slot>>, HashHex(value))]

---------------------------------------------------------------------------
(* simulator.StateCache and simulator.StateFork *)

NewStateCache ==
    [balances |-> EmptyMap, nonces |-> EmptyMap, code |-> EmptyMap,
     storage |-> EmptyMap]

NewCacheStats == [LRUHits |-> 0, SQLiteHits |-> 0, RPCCalls |-> 0, BatchedRPCCalls |-> 0]

(* NewStateFork: a fresh tier 1, fresh LRU caches and fresh statistics; the *)
(* persistent store is the file data/state_cache.db, whose contents d      *)
(* outlive the fork.                                                       *)
NewStateFork(blockNumber, d) ==
    [blockNumber |-> blockNumber,
     cache       |-> NewStateCache,
     lruBalance  |-> EmptyMap,
     lruNonce    |-> EmptyMap,
     lruCode     |-> EmptyMap,
     lruStorage  |-> EmptyMap,
     db          |-> d,
     stats       |-> NewCacheStats,
     snapshots   |-> <<>>]

balanceKey(block, addr) == <<block, addr>>

storageKey(block, addr, slot) == <<block, addr, slot>>

(* cache.storage[addr][slot], a map of maps *)
HasSlot(c, addr, slot) == Has(c.storage, addr) /\ Has(c.storage[addr], slot)

PutSlot(c, addr, slot, val) ==
    [c EXCEPT !.storage =
        Put(@, addr, Put(IF Has(c.storage, addr) THEN c.storage[addr] ELSE EmptyMap,
                         slot, val))]

(* The result of a read: the fork afterwards, the value, whether an error  *)
(* was returned, and the tier that answered.  rpc tells whether the remote *)
(* call, if one is made, succeeds.                                         *)
StateFork_GetBalance(f, addr, rpc) ==
    LET blockNum == f.blockNumber
        key == balanceKey(blockNum, addr)
        row == CacheDB_GetBalance(f.db, blockNum, addr)
        bal == ChainBalance(f.blockNumber, addr)
    IN  IF Has(f.cache.balances, addr)
        THEN [f |-> f, val |-> f.cache.balances[addr], err |-> FALSE, tier |-> "cache"]
        ELSE IF Has(f.lruBalance, key)
        THEN [f |-> [f EXCEPT !.stats.LRUHits = @ + 1,
                              !.cache.balances = Put(@, addr, f.lruBalance[key])],
              val |-> f.lruBalance[key], err |-> FALSE, tier |-> "lru"]
        ELSE IF row.ok
        THEN [f |-> [f EXCEPT !.stats.SQLiteHits = @ + 1,
                              !.lruBalance = Put(@, key, row.val),
                              !.cache.balances = Put(@, addr, row.val)],
              val |-> row.val, err |-> FALSE, tier |-> "sqlite"]
        ELSE IF ~rpc
        THEN [f |-> [f EXCEPT !.stats.RPCCalls = @ + 1],
              val |-> 0, err |-> TRUE, tier |-> "rpc"]
        ELSE [f |-> [f EXCEPT !.stats.RPCCalls = @ + 1,
                              !.lruBalance = Put(@, key, bal),
                              !.db = CacheDB_SetBalance(@, blockNum, addr, bal),
                              !.cache.balances = Put(@, addr, bal)],
              val |-> bal, err |-> FALSE, tier |-> "rpc"]

StateFork_GetNonce(f, addr, rpc) ==
    LET blockNum == f.blockNumber
        key == balanceKey(blockNum, addr)
        row == CacheDB_GetNonce(f.db, blockNum, addr)
        nonce == ChainNonce(f.blockNumber, addr)
    IN  IF Has(f.cache.nonces, addr)
        THEN [f |-> f, val |-> f.cache.nonces[addr], err |-> FALSE, tier |-> "cache"]
        ELSE IF Has(f.lruNonce, key)
        THEN [f |-> [f EXCEPT !.stats.LRUHits = @ + 1,
                              !.cache.nonces = Put(@, addr, f.lruNonce[key])],
              val |-> f.lruNonce[key], err |-> FALSE, tier |-> "lru"]
        ELSE IF row.ok
        THEN [f |-> [f EXCEPT !.stats.SQLiteHits = @ + 1,
                              !.lruNonce = Put(@, key, row.val),
                              !.cache.nonces = Put(@, addr, row.val)],
              val |-> row.val, err |-> FALSE, tier |-> "sqlite"]
        ELSE IF ~rpc
        THEN [f |-> [f EXCEPT !.stats.RPCCalls = @ + 1],
              val |-> 0, err |-> TRUE, tier |-> "rpc"]
        ELSE [f |-> [f EXCEPT !.stats.RPCCalls = @ + 1,
                              !.lruNonce = Put(@, key, nonce),
                              !.db = CacheDB_SetNonce(@, blockNum, addr, nonce),
                              !.cache.nonces = Put(@, addr, nonce)],
              val |-> nonce, err |-> FALSE, tier |-> "rpc"]

StateFork_GetCode(f, addr, rpc) ==
    LET blockNum == f.blockNumber
        key == balanceKey(blockNum, addr)
        row == CacheDB_GetCode(f.db, blockNum, addr)
        code == ChainCode(f.blockNumber, addr)
    IN  IF Has(f.cache.code, addr)
        THEN [f |-> f, val |-> f.cache.code[addr], err |-> FALSE, tier |-> "cache"]
        ELSE IF Has(f.lruCode, key)
        THEN [f |-> [f EXCEPT !.stats.LRUHits = @ + 1,
                              !.cache.code = Put(@, addr, f.lruCode[key])],
              val |-> f.lruCode[key], err |-> FALSE, tier |-> "lru"]
        ELSE IF row.ok
        THEN [f |-> [f EXCEPT !.stats.SQLiteHits = @ + 1,
                              !.lruCode = Put(@, key, row.val),
                              !.cache.code = Put(@, addr, row.val)],
              val |-> row.val, err |-> FALSE, tier |-> "sqlite"]
        ELSE IF ~rpc
        THEN [f |-> [f EXCEPT !.stats.RPCCalls = @ + 1],
              val |-> <<>>, err |-> TRUE, tier |-> "rpc"]
        ELSE [f |-> [f EXCEPT !.stats.RPCCalls = @ + 1,
                              !.lruCode = Put(@, key, code),
                              !.db = CacheDB_SetCode(@, blockNum, addr, code),
                              !.cache.code = Put(@, addr, code)],
              val |-> code, err |-> FALSE, tier |-> "rpc"]

(* Mutant: a persistent-store hit is not copied into the LRU. *)
GetStorageAt_NoLruBackfill(f, addr, slot, rpc) ==
    LET blockNum == f.blockNumber
        key == storageKey(blockNum, addr, slot)
        row == CacheDB_GetStorage(f.db, blockNum, addr, slot)
        val == BytesToHash(ChainStorage(f.blockNumber, addr, slot))
    IN  IF HasSlot(f.cache, addr, slot)
        THEN [f |-> f, val |-> f.cache.storage[addr][slot], err |-> FALSE, tier |-> "cache"]
        ELSE IF Has(f.lruStorage, key)
        THEN [f |-> [f EXCEPT !.stats.LRUHits = @ + 1,
                              !.cache = PutSlot(@, addr, slot, f.lruStorage[key])],
              val |-> f.lruStorage[key], err |-> FALSE, tier |-> "lru"]
        ELSE IF row.ok
        THEN [f |-> [f EXCEPT !.stats.SQLiteHits = @ + 1,
                              !.cache = PutSlot(@, addr, slot, row.val)],
              val |-> row.val, err |-> FALSE, tier |-> "sqlite"]
        ELSE IF ~rpc
        THEN [f |-> [f EXCEPT !.stats.RPCCalls = @ + 1],
              val |-> 0, err |-> TRUE, tier |-> "rpc"]
        ELSE [f |-> [f EXCEPT !.stats.RPCCalls = @ + 1,
                              !.lruStorage = Put(@, key, val),
                              !.db = CacheDB_SetStorage(@, blockNum, addr, slot, val),
                              !.cache = PutSlot(@, addr, slot, val)],
              val |-> val, err |-> FALSE, tier |-> "rpc"]

(* Mutant: a remote read is not copied into tier 1. *)
GetStorageAt_NoCacheBackfill(f, addr, slot, rpc) ==
    LET blockNum == f.blockNumber
        key == storageKey(blockNum, addr, slot)
        row == CacheDB_GetStorage(f.db, blockNum, addr, slot)
        val == BytesToHash(ChainStorage(f.blockNumber, addr, slot))
    IN  IF HasSlot(f.cache, addr, slot)
        THEN [f |-> f, val |-> f.cache.storage[addr][slot], err |-> FALSE, tier |-> "cache"]
        ELSE IF Has(f.lruStorage, key)
        THEN [f |-> [f EXCEPT !.stats.LRUHits = @ + 1,
                              !.cache = PutSlot(@, addr, slot, f.lruStorage[key])],
              val |-> f.lruStorage[key], err |-> FALSE, tier |-> "lru"]
        ELSE IF row.ok
        THEN [f |-> [f EXCEPT !.stats.SQLiteHits = @ + 1,
                              !.lruStorage = Put(@, key, row.val),
                              !.cache = PutSlot(@, addr, slot, row.val)],
              val |-> row.val, err |-> FALSE, tier |-> "sqlite"]
        ELSE IF ~rpc
        THEN [f |-> [f EXCEPT !.stats.RPCCalls = @ + 1],
              val |-> 0, err |-> TRUE, tier |-> "rpc"]
        ELSE [f |-> [f EXCEPT !.stats.RPCCalls = @ + 1,
                              !.lruStorage = Put(@, key, val),
                              !.db = CacheDB_SetStorage(@, blockNum, addr, slot, val)],
              val |-> val, err |-> FALSE, tier |-> "rpc"]

StateFork_GetStorageAt(f, addr, slot, rpc) ==
    LET blockNum == f.blockNumber
        key == storageKey(blockNum, addr, slot)
        row == CacheDB_GetStorage(f.db, blockNum, addr, slot)
        val == BytesToHash(ChainStorage(f.blockNumber, addr, slot))
    IN  IF HasSlot(f.cache, addr, slot)
        THEN [f |-> f, val |-> f.cache.storage[addr][slot], err |-> FALSE, tier |-> "cache"]
        ELSE IF Has(f.lruStorage, key)
        THEN [f |-> [f EXCEPT !.stats.LRUHits = @ + 1,
                              !.cache = PutSlot(@, addr, slot, f.lruStorage[key])],
              val |-> f.lruStorage[key], err |-> FALSE, tier |-> "lru"]
        ELSE IF row.ok
        THEN [f |-> [f EXCEPT !.stats.SQLiteHits = @ + 1,
                              !.lruStorage = Put(@, key, row.val),
                              !.cache = PutSlot(@, addr, slot, row.val)],
              val |-> row.val, err |-> FALSE, tier |-> "sqlite"]
        ELSE IF ~rpc
        THEN [f |-> [f EXCEPT !.stats.RPCCalls = @ + 1],
              val |-> 0, err |-> TRUE, tier |-> "rpc"]
        ELSE [f |-> [f EXCEPT !.stats.RPCCalls = @ + 1,
                              !.lruStorage = Put(@, key, val),
                              !.db = CacheDB_SetStorage(@, blockNum, addr, slot, val),
                              !.cache = PutSlot(@, addr, slot, val)],
              val |-> val, err |-> FALSE, tier |-> "rpc"]

(* Mutant: the written balance is also stored in the LRU. *)
SetBalance_WriteThrough(f, addr, bal) ==
    [f EXCEPT !.cache.balances = Put(@, addr, bal),
              !.lruBalance = Put(@, balanceKey(f.blockNumber, addr), bal)]

StateFork_SetBalance(f, addr, bal) == [f EXCEPT !.cache.balances = Put(@, addr, bal)]

StateFork_SetNonce(f, addr, nonce) == [f EXCEPT !.cache.nonces = Put(@, addr, nonce)]

StateFork_SetStorageAt(f, addr, slot, val) == [f EXCEPT !.cache = PutSlot(@, addr, slot, val)]

(* Mutant: the handle is the stack depth after the push. *)
Snapshot_DepthAfterPush(f) ==
    [f |-> [f EXCEPT !.snapshots = Append(@, f.cache)], val |-> Len(f.snapshots) + 1]

(* Snapshot: a deep copy of the four maps of tier 1 is appended to the     *)
(* stack; the handle is the index of the copy.                             *)
StateFork_Snapshot(f) ==
    LET snap == [balances |-> [a \in DOMAIN f.cache.balances |-> f.cache.balances[a]],
                 nonces   |-> [a \in DOMAIN f.cache.nonces |-> f.cache.nonces[a]],
                 code     |-> [a \in DOMAIN f.cache.code |-> f.cache.code[a]],
                 storage  |-> [a \in DOMAIN f.cache.storage |->
                                 [s \in DOMAIN f.cache.storage[a] |-> f.cache.storage[a][s]]]]
    IN  [f |-> [f EXCEPT !.snapshots = Append(@, snap)], val |-> Len(f.snapshots)]

(* Mutant: the most recent snapshot is restored, whatever the handle. *)
RevertToSnapshot_Latest(f, snapID) ==
    IF snapID < 0 \/ snapID >= Len(f.snapshots)
    THEN [f |-> f, err |-> TRUE]
    ELSE [f |-> [f EXCEPT !.cache = f.snapshots[Len(f.snapshots)],
                          !.snapshots = SubSeq(f.snapshots, 1, snapID)],
          err |-> FALSE]

(* Mutant: the stack keeps the restored snapshot (cut above it only). *)
RevertToSnapshot_KeepsHandle(f, snapID) ==
    IF snapID < 0 \/ snapID >= Len(f.snapshots)
    THEN [f |-> f, err |-> TRUE]
    ELSE [f |-> [f EXCEPT !.cache = f.snapshots[snapID + 1],
                          !.snapshots = SubSeq(f.snapshots, 1, snapID + 1)],
          err |-> FALSE]

(* RevertToSnapshot: the saved cache becomes tier 1 and the stack is cut   *)
(* to the entries below it (Go index snapID is element snapID + 1).        *)
StateFork_RevertToSnapshot(f, snapID) ==
    IF snapID < 0 \/ snapID >= Len(f.snapshots)
    THEN [f |-> f, err |-> TRUE]
    ELSE [f |-> [f EXCEPT !.cache = f.snapshots[snapID + 1],
                          !.snapshots = SubSeq(f.snapshots, 1, snapID)],
          err |-> FALSE]

---------------------------------------------------------------------------
(* simulator.ForkedStateDB: the adapter operations that write.  uint256    *)
(* arithmetic wraps at 2^UintBits.                                         *)

(* BatchSetAccounts and BatchSetStorage run in one transaction: every row  *)
(* is written with all its columns, or (an Exec or the Commit failed, the  *)
(* deferred Rollback runs) none is.                                        *)
CacheDB_BatchSetAccounts(d, block, accounts, commit) ==
    IF ~commit THEN d
    ELSE [d EXCEPT !.account_state =
            [k \in DOMAIN @ \cup {<<block, acc.Address>> : acc \in accounts} |->
                IF \E acc \in accounts : k = <<block, acc.Address>>
                THEN LET acc == CHOOSE x \in accounts : k = <<block, x.Address>> IN
                     [balance |-> <<BigString(acc.Balance)>>,
                      nonce |-> <<acc.Nonce>>,
                      code |-> <<acc.Code>>]
                ELSE @[k]]]

CacheDB_BatchSetStorage(d, block, storage, commit) ==
    IF ~commit THEN d
    ELSE [d EXCEPT !.storage_state =
            [k \in DOMAIN @ \cup {<<block, x.Address, x.Slot>> : x \in storage} |->
                IF \E x \in storage : k = <<block, x.Address, x.Slot>>
                THEN LET x == CHOOSE y \in storage : k = <<block, y.Address, y.Slot>> IN
                     HashHex(x.Value)
                ELSE @[k]]]

(* Client.BatchGetAccounts / BatchGetStorage: one result per request; a    *)
(* request in errs comes back with Err set.                                *)
BatchGetAccounts(block, addrs, errs) ==
    {[Address |-> a, Balance |-> ChainBalance(block, a), Nonce |-> ChainNonce(block, a),
      Code |-> ChainCode(block, a), Err |-> a \in errs] : a \in addrs}

BatchGetStorage(block, slots, errs) ==
    {[Address |-> k[1], Slot |-> k[2],
      Value |-> HexToHash(HashHex(BytesToHash(ChainStorage(block, k[1], k[2])))),
      Err |-> k \in errs] : k \in slots}

(* m with k -> v added for every pair <<k, v>> of entries *)
AddAll(m, entries) ==
    [k \in DOMAIN m \cup {e[1] : e \in entries} |->
        IF \E e \in entries : e[1] = k
        THEN (CHOOSE e \in entries : e[1] = k)[2]
        ELSE m[k]]

PrewarmAccounts(f, t) ==
    IF t.addrs = {} THEN f
    ELSE LET results == BatchGetAccounts(f.blockNumber, t.addrs, t.accErr)
             good == {r \in results : ~r.Err}
             key(r) == balanceKey(f.blockNumber, r.Address)
         IN [f EXCEPT
               !.stats.BatchedRPCCalls = @ + 1,
               !.lruBalance = AddAll(@, {<<key(r), r.Balance>> : r \in good}),
               !.lruNonce = AddAll(@, {<<key(r), r.Nonce>> : r \in good}),
               !.lruCode = AddAll(@, {<<key(r), r.Code>> : r \in good}),
               !.db = IF good = {} THEN @
                      ELSE CacheDB_BatchSetAccounts(@, f.blockNumber, good, t.accCommit)]

PrewarmStorage(f, t) ==
    IF t.slots = {} THEN f
    ELSE LET results == BatchGetStorage(f.blockNumber, t.slots, t.slotErr)
             good == {r \in results : ~r.Err}
             key(r) == storageKey(f.blockNumber, r.Address, r.Slot)
         IN [f EXCEPT
               !.stats.BatchedRPCCalls = @ + 1,
               !.lruStorage = AddAll(@, {<<key(r), r.Value>> : r \in good}),
               !.db = IF good = {} THEN @
                      ELSE CacheDB_BatchSetStorage(@, f.blockNumber, good, t.slotCommit)]

(* Mutant: the results that carry an error are stored as well. *)
PrewarmFromTrace_KeepsErrors(f, t) ==
    IF ~t.traceOk THEN [f |-> f, err |-> FALSE]
    ELSE LET u == [t EXCEPT !.accErr = {}, !.slotErr = {}] IN
         [f |-> PrewarmStorage(PrewarmAccounts(f, u), u), err |-> FALSE]

StateFork_PrewarmFromTrace(f, t) ==
    IF ~t.traceOk THEN [f |-> f, err |-> FALSE]
    ELSE [f |-> PrewarmStorage(PrewarmAccounts(f, t), t), err |-> FALSE]

UintModulus == Pow(2, UintBits)

(* uint256.FromBig reports overflow for a value that does not fit *)
ForkedStateDB_GetBalance(f, addr, rpc) ==
    LET r == StateFork_GetBalance(f, addr, rpc) IN
    [f |-> r.f, val |-> IF r.err \/ r.val >= UintModulus THEN 0 ELSE r.val]

ForkedStateDB_AddBalance(f, addr, amount, rpc) ==
    LET r == ForkedStateDB_GetBalance(f, addr, rpc) IN
    [f |-> StateFork_SetBalance(r.f, addr, (r.val + amount) % UintModulus), val |-> r.val]

ForkedStateDB_SubBalance_Clamps(f, addr, amount, rpc) ==
    LET r == ForkedStateDB_GetBalance(f, addr, rpc) IN
    [f |-> StateFork_SetBalance(r.f, addr, IF amount > r.val THEN 0 ELSE r.val - amount),
     val |-> r.val]

ForkedStateDB_SubBalance(f, addr, amount, rpc) ==
    LET r == ForkedStateDB_GetBalance(f, addr, rpc) IN
    [f |-> StateFork_SetBalance(r.f, addr, (r.val - amount) % UintModulus), val |-> r.val]

ForkedStateDB_CreateAccount_KeepsNonce(f, addr) == StateFork_SetBalance(f, addr, 0)

ForkedStateDB_CreateAccount(f, addr) ==
    StateFork_SetNonce(StateFork_SetBalance(f, addr, 0), addr, 0)

ForkedStateDB_GetCode(f, addr, rpc) ==
    LET r == StateFork_GetCode(f, addr, rpc) IN
    [f |-> r.f, val |-> IF r.err THEN <<>> ELSE r.val]

ForkedStateDB_SetCode(f, addr, code, rpc) ==
    LET r == ForkedStateDB_GetCode(f, addr, rpc) IN
    [f |-> [r.f EXCEPT !.cache.code = Put(@, addr, code)], val |-> r.val]

ForkedStateDB_GetState_CachesZero(f, addr, hash, rpc) ==
    LET r == StateFork_GetStorageAt(f, addr, hash, rpc) IN
    [f |-> IF r.err THEN StateFork_SetStorageAt(r.f, addr, hash, 0) ELSE r.f,
     val |-> IF r.err THEN 0 ELSE r.val]

ForkedStateDB_GetState(f, addr, hash, rpc) ==
    LET r == StateFork_GetStorageAt(f, addr, hash, rpc) IN
    [f |-> r.f, val |-> IF r.err THEN 0 ELSE r.val]

ForkedStateDB_SetState(f, addr, key, value, rpc) ==
    LET r == ForkedStateDB_GetState(f, addr, key, rpc) IN
    [f |-> StateFork_SetStorageAt(r.f, addr, key, value), val |-> r.val]

ForkedStateDB_SelfDestruct(f, addr, rpc) ==
    LET r == ForkedStateDB_GetBalance(f, addr, rpc) IN
    [f |-> StateFork_SetBalance(r.f, addr, 0), val |-> r.val]

---------------------------------------------------------------------------
(* Executor and bundle simulator                                           *)

ForkedStateDB_GetNonce(f, addr, rpc) ==
    LET r == StateFork_GetNonce(f, addr, rpc) IN
    [f |-> r.f, val |-> IF r.err THEN 0 ELSE r.val]

ForkedStateDB_SetNonce(f, addr, nonce) == StateFork_SetNonce(f, addr, nonce)

ForkedStateDB_Snapshot(f) == StateFork_Snapshot(f)

(* the error of the fork's RevertToSnapshot is dropped *)
ForkedStateDB_RevertToSnapshot(f, id) == StateFork_RevertToSnapshot(f, id).f

(* Messages of the errors ApplyMessage returns, and of the errors an       *)
(* execution fails with.                                                   *)
ApplyErrors == {"nonce too low"}
VmErrors == {"execution reverted"}
GasValues == {21, 30}

(* goerr: ExecuteTransaction returned (nil, err) *)
SimulationResult(success, gas, reason) ==
    [goerr |-> FALSE, Success |-> success, GasUsed |-> gas, RevertReason |-> reason]

NilSimulationResult ==
    [goerr |-> TRUE, Success |-> FALSE, GasUsed |-> 0, RevertReason |-> ""]

(* ExecuteTransaction up to ApplyMessage: the sender is recovered, the     *)
(* snapshot is taken, the intrinsic gas is computed.                       *)
ExecuteTransaction_Begin(f, senderOk, intrinsicOk) ==
    IF ~senderOk THEN [f |-> f, snap |-> 0, goerr |-> TRUE]
    ELSE LET s == ForkedStateDB_Snapshot(f) IN
         [f |-> s.f, snap |-> s.val, goerr |-> ~intrinsicOk]

(* Mutant: a failed execution is reported without reverting. *)
ExecuteTransaction_NoRevert(f, snap, outcome, gas, reason) ==
    CASE outcome = "err" ->
            [f |-> ForkedStateDB_RevertToSnapshot(f, snap),
             sim |-> SimulationResult(FALSE, 0, reason)]
      [] outcome = "failed" ->
            [f |-> f, sim |-> SimulationResult(FALSE, gas, reason)]
      [] OTHER ->
            [f |-> f, sim |-> SimulationResult(TRUE, gas, "")]

(* ExecuteTransaction from the return of ApplyMessage: outcome "err" is a  *)
(* returned error, "failed" a result with Failed(), "ok" a success.        *)
ExecuteTransaction_End(f, snap, outcome, gas, reason) ==
    CASE outcome = "err" ->
            [f |-> ForkedStateDB_RevertToSnapshot(f, snap),
             sim |-> SimulationResult(FALSE, 0, reason)]
      [] outcome = "failed" ->
            [f |-> ForkedStateDB_RevertToSnapshot(f, snap),
             sim |-> SimulationResult(FALSE, gas, reason)]
      [] OTHER ->
            [f |-> f, sim |-> SimulationResult(TRUE, gas, "")]

TxHash(i) == 20 + i

TxResult(hash, sim) ==
    [TxHash |-> hash, Success |-> sim.Success, GasUsed |-> sim.GasUsed,
     RevertReason |-> sim.RevertReason]

(* nil: ExecuteBundle returned (nil, err) *)
NewBundleResult ==
    [nil |-> FALSE, Success |-> TRUE, Transactions |-> <<>>, TotalGasUsed |-> 0,
     RevertedAt |-> -1]

NilBundleResult ==
    [nil |-> TRUE, Success |-> FALSE, Transactions |-> <<>>, TotalGasUsed |-> 0,
     RevertedAt |-> -1]

(* Mutant: a failed bundle is returned without reverting to its snapshot. *)
ExecuteBundle_NoRevert(f, snapID, result, i, sim) ==
    IF sim.goerr
    THEN [f |-> f, result |-> NilBundleResult, stop |-> TRUE]
    ELSE LET r == [result EXCEPT
                      !.Transactions = Append(@, TxResult(TxHash(i), sim)),
                      !.TotalGasUsed = @ + sim.GasUsed]
         IN
         IF ~sim.Success
         THEN [f |-> f,
               result |-> [r EXCEPT !.Success = FALSE, !.RevertedAt = i],
               stop |-> TRUE]
         ELSE [f |-> f, result |-> r, stop |-> FALSE]

(* Mutant: the loop goes on after a failed transaction. *)
ExecuteBundle_NoStop(f, snapID, result, i, sim) ==
    IF sim.goerr
    THEN [f |-> ForkedStateDB_RevertToSnapshot(f, snapID),
          result |-> NilBundleResult, stop |-> TRUE]
    ELSE LET r == [result EXCEPT
                      !.Transactions = Append(@, TxResult(TxHash(i), sim)),
                      !.TotalGasUsed = @ + sim.GasUsed]
         IN
         IF ~sim.Success
         THEN [f |-> ForkedStateDB_RevertToSnapshot(f, snapID),
               result |-> [r EXCEPT !.Success = FALSE, !.RevertedAt = i],
               stop |-> FALSE]
         ELSE [f |-> f, result |-> r, stop |-> FALSE]

(* Mutant: the gas of a transaction is not added to the total. *)
ExecuteBundle_NoGas(f, snapID, result, i, sim) ==
    IF sim.goerr
    THEN [f |-> ForkedStateDB_RevertToSnapshot(f, snapID),
          result |-> NilBundleResult, stop |-> TRUE]
    ELSE LET r == [result EXCEPT
                      !.Transactions = Append(@, TxResult(TxHash(i), sim))]
         IN
         IF ~sim.Success
         THEN [f |-> ForkedStateDB_RevertToSnapshot(f, snapID),
               result |-> [r EXCEPT !.Success = FALSE, !.RevertedAt = i],
               stop |-> TRUE]
         ELSE [f |-> f, result |-> r, stop |-> FALSE]

(* The body of ExecuteBundle's loop after ExecuteTransaction returned sim  *)
(* for transaction i.                                                      *)
ExecuteBundle_Loop(f, snapID, result, i, sim) ==
    IF sim.goerr
    THEN [f |-> ForkedStateDB_RevertToSnapshot(f, snapID),
          result |-> NilBundleResult, stop |-> TRUE]
    ELSE LET r == [result EXCEPT
                      !.Transactions = Append(@, TxResult(TxHash(i), sim)),
                      !.TotalGasUsed = @ + sim.GasUsed]
         IN
         IF ~sim.Success
         THEN [f |-> ForkedStateDB_RevertToSnapshot(f, snapID),
               result |-> [r EXCEPT !.Success = FALSE, !.RevertedAt = i],
               stop |-> TRUE]
         ELSE [f |-> f, result |-> r, stop |-> FALSE]

(* A CacheDB nobody has called, and the arbitrage package before a call *)
IdleStore ==
    [db |-> NewCacheDB, n |-> 0, written |-> EmptyMap,
     ret |-> [op |-> "none", kind |-> "none", block |-> 0, addr |-> "", slot |-> "",
              val |-> 0, code |-> <<>>, ok |-> FALSE]]

IdleCalc == [op |-> "none"]

(* The remote's answers to one PrewarmFromTrace: whether the trace call    *)
(* succeeded, the addresses and slots the trace names, the requests of     *)
(* each batch that came back with an error, and whether each batch write   *)
(* to the store committed.                                                 *)
TraceAnswer(traceOk, addrs, slots, accErr, slotErr, accCommit, slotCommit) ==
    [traceOk |-> traceOk, addrs |-> addrs, slots |-> slots, accErr |-> accErr,
     slotErr |-> slotErr, accCommit |-> accCommit, slotCommit |-> slotCommit]

IdleRemote == TraceAnswer(FALSE, {}, {}, {}, {}, FALSE, FALSE)

(* pc: "idle" no call yet; "loop" at the head of ExecuteBundle's loop;     *)
(* "evm" inside ApplyMessage; "txret" ExecuteTransaction has returned sim; *)
(* "done" ExecuteBundle has returned result.                               *)
IdleExec ==
    [pc |-> "idle", n |-> 0, i |-> 0, snapID |-> 0, snap |-> 0, frames |-> <<>>,
     evmSteps |-> 0, sim |-> NilSimulationResult, result |-> NilBundleResult]

---------------------------------------------------------------------------
(* Calls on the fork.  Every call records what it returned in ret.         *)

Ret(op, addr, slot, arg, val, code, err, tier) ==
    [op |-> op, addr |-> addr, slot |-> slot, arg |-> arg, val |-> val,
     code |-> code, err |-> err, tier |-> tier]

NoRet == Ret("none", "", "", 0, 0, <<>>, FALSE, "none")

Called(f, r) ==
    /\ steps < MaxSteps
    /\ fork' = f
    /\ ret' = r
    /\ steps' = steps + 1
    /\ UNCHANGED <<exec, hist, store, calc, remote>>

GetBalance(addr) ==
    \E rpc \in BOOLEAN :
        LET r == StateFork_GetBalance(fork, addr, rpc) IN
        /\ Called(r.f, Ret("GetBalance", addr, "", 0, r.val, <<>>, r.err, r.tier))
        /\ UNCHANGED <<touched, taken, revoked, stale, seen, fresh>>

GetNonce(addr) ==
    \E rpc \in BOOLEAN :
        LET r == StateFork_GetNonce(fork, addr, rpc) IN
        /\ Called(r.f, Ret("GetNonce", addr, "", 0, r.val, <<>>, r.err, r.tier))
        /\ UNCHANGED <<touched, taken, revoked, stale, seen, fresh>>

GetCode(addr) ==
    \E rpc \in BOOLEAN :
        LET r == StateFork_GetCode(fork, addr, rpc) IN
        /\ Called(r.f, Ret("GetCode", addr, "", 0, 0, r.val, r.err, r.tier))
        /\ UNCHANGED <<touched, taken, revoked, stale, seen, fresh>>

GetStorageAt(addr, slot) ==
    \E rpc \in BOOLEAN :
        LET r == StateFork_GetStorageAt(fork, addr, slot, rpc)
            k == <<addr, slot>>
        IN
        /\ Called(r.f, Ret("GetStorageAt", addr, slot, 0, r.val, <<>>, r.err, r.tier))
        /\ seen' = IF r.err \/ Has(seen, k) THEN seen ELSE Put(seen, k, r.val)
        /\ fresh' = IF r.err THEN fresh ELSE fresh \cup {k}
        /\ UNCHANGED <<touched, taken, revoked, stale>>

SetBalance(addr, bal) ==
    /\ Called(StateFork_SetBalance(fork, addr, bal),
              Ret("SetBalance", addr, "", 0, bal, <<>>, FALSE, "none"))
    /\ touched' = touched \cup {<<"balance", addr, "">>}
    /\ UNCHANGED <<taken, revoked, stale, seen, fresh>>

SetNonce(addr, nonce) ==
    /\ Called(StateFork_SetNonce(fork, addr, nonce),
              Ret("SetNonce", addr, "", 0, nonce, <<>>, FALSE, "none"))
    /\ touched' = touched \cup {<<"nonce", addr, "">>}
    /\ UNCHANGED <<taken, revoked, stale, seen, fresh>>

SetStorageAt(addr, slot, val) ==
    /\ Called(StateFork_SetStorageAt(fork, addr, slot, val),
              Ret("SetStorageAt", addr, slot, 0, val, <<>>, FALSE, "none"))
    /\ touched' = touched \cup {<<"storage", addr, slot>>}
    /\ UNCHANGED <<taken, revoked, stale, seen, fresh>>

SetCode(addr, code) ==
    \E rpc \in BOOLEAN :
        LET r == ForkedStateDB_SetCode(fork, addr, code, rpc) IN
        /\ Called(r.f, Ret("SetCode", addr, "", 0, 0, r.val, FALSE, "none"))
        /\ touched' = touched \cup {<<"code", addr, "">>}
        /\ UNCHANGED <<taken, revoked, stale, seen, fresh>>

Snapshot ==
    LET r == StateFork_Snapshot(fork) IN
    /\ Len(fork.snapshots) < MaxSnapshots
    /\ Called(r.f, Ret("Snapshot", "", "", 0, r.val, <<>>, FALSE, "none"))
    /\ taken' = Put(taken, r.val, fork.cache)
    /\ stale' = stale \ {r.val}
    /\ UNCHANGED <<touched, revoked, seen, fresh>>

RevertToSnapshot(snapID) ==
    LET r == StateFork_RevertToSnapshot(fork, snapID)
        dead == {h \in DOMAIN taken : h >= snapID}
    IN
    /\ Called(r.f, Ret("RevertToSnapshot", "", "", snapID, 0, <<>>, r.err, "none"))
    /\ taken' = IF r.err THEN taken ELSE [h \in DOMAIN taken \ dead |-> taken[h]]
    /\ revoked' = IF r.err THEN revoked ELSE revoked \cup dead
    /\ stale' = IF r.err THEN stale ELSE stale \cup dead
    /\ fresh' = IF r.err THEN fresh ELSE {}
    /\ UNCHANGED <<touched, seen>>

(* A later fork of a block: NewStateFork over the same persistent store. *)
Refork(blockNumber) ==
    /\ Called(NewStateFork(blockNumber, fork.db),
              Ret("NewStateFork", "", "", blockNumber, 0, <<>>, FALSE, "none"))
    /\ touched' = {}
    /\ taken' = EmptyMap
    /\ revoked' = {}
    /\ stale' = {}
    /\ seen' = EmptyMap
    /\ fresh' = {}

InitFork ==
    /\ fork \in {NewStateFork(b, NewCacheDB) : b \in Blocks}
    /\ ret = NoRet
    /\ steps = 0
    /\ touched = {}
    /\ taken = EmptyMap
    /\ revoked = {}
    /\ stale = {}
    /\ seen = EmptyMap
    /\ fresh = {}
    /\ exec = IdleExec
    /\ hist = [pre |-> fork, txlog |-> <<>>]
    /\ store = IdleStore
    /\ calc = IdleCalc
    /\ remote = IdleRemote

NextFork ==
    \/ \E a \in Addrs : GetBalance(a)
    \/ \E a \in Addrs : GetNonce(a)
    \/ \E a \in Addrs : GetCode(a)
    \/ \E a \in Addrs, s \in Slots : GetStorageAt(a, s)
    \/ \E a \in Addrs, v \in BalanceWrites : SetBalance(a, v)
    \/ \E a \in Addrs, v \in NonceWrites : SetNonce(a, v)
    \/ \E a \in Addrs, s \in Slots, v \in StorageWrites : SetStorageAt(a, s, v)
    \/ \E a \in Addrs, c \in CodeWrites : SetCode(a, c)
    \/ Snapshot
    \/ \E h \in 0..MaxSnapshots : RevertToSnapshot(h)
    \/ \E b \in Blocks : Refork(b)

SpecFork == InitFork /\ [][NextFork]_vars

---------------------------------------------------------------------------
(* Properties of the fork's calls.                                         *)

Reads == {"GetBalance", "GetNonce", "GetCode", "GetStorageAt"}

(* The kind of state a read returns. *)
KindOf(op) ==
    CASE op = "GetBalance" -> "balance"
      [] op = "GetNonce" -> "nonce"
      [] op = "GetCode" -> "code"
      [] OTHER -> "storage"

RetValue(r) == IF r.op = "GetCode" THEN r.code ELSE r.val

ChainValue(kind, block, addr, slot) ==
    CASE kind = "balance" -> ChainBalance(block, addr)
      [] kind = "nonce" -> ChainNonce(block, addr)
      [] kind = "code" -> ChainCode(block, addr)
      [] OTHER -> BytesToHash(ChainStorage(block, addr, slot))

(* A step that is a call of op *)
IsCall(op) == steps' = steps + 1 /\ ret'.op = op

(* C1: when RevertToSnapshot(h) is called with a handle h that Snapshot    *)
(* returned and that no successful revert to h or to a smaller handle has  *)
(* used up since, it succeeds and tier 1 is exactly what it was when       *)
(* Snapshot returned h, whatever Set*, SetCode, Get* and nested            *)
(* Snapshot/RevertToSnapshot calls were made in between.                   *)
C1_RevertRestores ==
    [][\A h \in 0..(MaxSnapshots + 1) :
          (IsCall("RevertToSnapshot") /\ ret'.arg = h /\ Has(taken, h))
              => (~ret'.err /\ fork'.cache = taken[h])]_vars

(* A revert to handle 0 has undone writes across a nested snapshot: two    *)
(* handles were used up, keys were written, and tier 1 is empty again.     *)
C1_Witness ==
    /\ ret.op = "RevertToSnapshot" /\ ret.arg = 0 /\ ~ret.err
    /\ {0, 1} \subseteq revoked
    /\ touched # {}
    /\ fork.cache = NewStateCache

(* C10 as stated: once a successful revert has invalidated a handle value, *)
(* every later RevertToSnapshot with that value fails and changes neither  *)
(* tier 1 nor the stack, whatever Snapshot and Set* calls come in between. *)
C10_Original ==
    [][\A h \in 0..(MaxSnapshots + 1) :
          (IsCall("RevertToSnapshot") /\ ret'.arg = h /\ h \in revoked)
              => (ret'.err /\ fork'.cache = fork.cache
                           /\ fork'.snapshots = fork.snapshots)]_vars

(* C10 amended: a handle value invalidated by a successful revert stays    *)
(* unusable until a later Snapshot returns that value again: until then    *)
(* RevertToSnapshot with it fails and changes neither tier 1 nor the       *)
(* stack, whatever Set* calls and other Snapshot calls come in between.    *)
C10_StaleHandleRejected ==
    [][\A h \in 0..(MaxSnapshots + 1) :
          (IsCall("RevertToSnapshot") /\ ret'.arg = h /\ h \in stale)
              => (ret'.err /\ fork'.cache = fork.cache
                           /\ fork'.snapshots = fork.snapshots)]_vars

(* A revert with a stale handle above the one reverted to was refused      *)
(* after a write and a new snapshot at a lower index.                      *)
C10_Witness ==
    /\ ret.op = "RevertToSnapshot" /\ ret.err
    /\ ret.arg \in stale
    /\ ret.arg = 1
    /\ Len(fork.snapshots) = 1
    /\ touched # {}

(* C6: a successful read of a key that no Set* / SetCode has touched on    *)
(* this fork returns the remote chain's value at the fork block.           *)
C6_Faithful ==
    (/\ ret.op \in Reads
     /\ ~ret.err
     /\ <<KindOf(ret.op), ret.addr, ret.slot>> \notin touched)
        => RetValue(ret) = ChainValue(KindOf(ret.op), fork.blockNumber, ret.addr, ret.slot)

(* Tier contents by kind of state *)
T1Has(f, kind, a, s) ==
    CASE kind = "balance" -> Has(f.cache.balances, a)
      [] kind = "nonce" -> Has(f.cache.nonces, a)
      [] kind = "code" -> Has(f.cache.code, a)
      [] OTHER -> HasSlot(f.cache, a, s)

T1Val(f, kind, a, s) ==
    CASE kind = "balance" -> f.cache.balances[a]
      [] kind = "nonce" -> f.cache.nonces[a]
      [] kind = "code" -> f.cache.code[a]
      [] OTHER -> f.cache.storage[a][s]

LruOf(f, kind) ==
    CASE kind = "balance" -> f.lruBalance
      [] kind = "nonce" -> f.lruNonce
      [] kind = "code" -> f.lruCode
      [] OTHER -> f.lruStorage

LruKey(f, kind, a, s) ==
    IF kind = "storage" THEN storageKey(f.blockNumber, a, s)
    ELSE balanceKey(f.blockNumber, a)

Lrus(f) == <<f.lruBalance, f.lruNonce, f.lruCode, f.lruStorage>>

DbRead(f, kind, a, s) ==
    CASE kind = "balance" -> CacheDB_GetBalance(f.db, f.blockNumber, a)
      [] kind = "nonce" -> CacheDB_GetNonce(f.db, f.blockNumber, a)
      [] kind = "code" -> CacheDB_GetCode(f.db, f.blockNumber, a)
      [] OTHER -> CacheDB_GetStorage(f.db, f.blockNumber, a, s)

(* The stored column of the key's row holds v *)
DbHolds(f, kind, a, s, v) ==
    IF kind = "storage"
    THEN /\ Has(f.db.storage_state, <<f.blockNumber, a, s>>)
         /\ f.db.storage_state[<<f.blockNumber, a, s>>] = HashHex(v)
    ELSE /\ Has(f.db.account_state, <<f.blockNumber, a>>)
         /\ LET row == f.db.account_state[<<f.blockNumber, a>>] IN
            CASE kind = "balance" -> row.balance = <<BigString(v)>>
              [] kind = "nonce" -> row.nonce = <<v>>
              [] OTHER -> row.code = <<v>>

C8_Post(kind, a, s) ==
    LET inT1 == T1Has(fork, kind, a, s)
        key == LruKey(fork, kind, a, s)
        inLru == Has(LruOf(fork, kind), key)
        row == DbRead(fork, kind, a, s)
        v == RetValue(ret')
    IN
    /\ inT1 => /\ ~ret'.err
               /\ v = T1Val(fork, kind, a, s)
               /\ fork' = fork
    /\ (~inT1 /\ inLru) =>
               /\ ~ret'.err
               /\ v = LruOf(fork, kind)[key]
               /\ fork'.stats = [fork.stats EXCEPT !.LRUHits = @ + 1]
               /\ fork'.db = fork.db
               /\ Lrus(fork') = Lrus(fork)
    /\ (~inT1 /\ ~inLru /\ row.ok) =>
               /\ ~ret'.err
               /\ v = row.val
               /\ fork'.stats = [fork.stats EXCEPT !.SQLiteHits = @ + 1]
               /\ fork'.db = fork.db
               /\ Has(LruOf(fork', kind), key) /\ LruOf(fork', kind)[key] = v
    /\ (~inT1 /\ ~inLru /\ ~row.ok) =>
               /\ fork'.stats = [fork.stats EXCEPT !.RPCCalls = @ + 1]
               /\ ~ret'.err =>
                    /\ Has(LruOf(fork', kind), key) /\ LruOf(fork', kind)[key] = v
                    /\ DbHolds(fork', kind, a, s, v)
    /\ ~ret'.err => (T1Has(fork', kind, a, s) /\ T1Val(fork', kind, a, s) = v)

(* C8: every read consults tier 1, the LRU, the persistent store and the   *)
(* remote in that order and stops at the first hit: a tier-1 hit changes   *)
(* nothing; an LRU hit counts one LRU hit and leaves the LRU caches and    *)
(* the store as they were; a store hit counts one store hit, copies the    *)
(* value into the LRU and makes no remote call; otherwise one remote call  *)
(* is counted and, if it succeeds, its value is stored in the LRU and in   *)
(* the store.  After a successful read tier 1 holds the returned value.    *)
C8_TierOrder ==
    [][\A op \in Reads, a \in Accounts, s \in Slots \cup {""} :
          (IsCall(op) /\ ret'.addr = a /\ ret'.slot = s) => C8_Post(KindOf(op), a, s)]_vars

(* A storage read was answered by the persistent store (written by an      *)
(* earlier fork of the block) and copied into the LRU and tier 1.          *)
C8_Witness ==
    /\ ret.op = "GetStorageAt" /\ ret.tier = "sqlite" /\ ~ret.err
    /\ fork.stats.SQLiteHits = 1
    /\ Has(fork.lruStorage, storageKey(fork.blockNumber, ret.addr, ret.slot))
    /\ HasSlot(fork.cache, ret.addr, ret.slot)

---------------------------------------------------------------------------
(* The state-DB adapter's write operations, called one at a time as the    *)
(* interpreter does.                                                       *)

Amounts == {1}

AddBalance(addr, amount) ==
    \E rpc \in BOOLEAN :
        LET r == ForkedStateDB_AddBalance(fork, addr, amount, rpc) IN
        /\ Called(r.f, Ret("AddBalance", addr, "", amount, r.val, <<>>, FALSE, "none"))
        /\ touched' = touched \cup {<<"balance", addr, "">>}
        /\ UNCHANGED <<taken, revoked, stale, seen, fresh>>

SubBalance(addr, amount) ==
    \E rpc \in BOOLEAN :
        LET r == ForkedStateDB_SubBalance(fork, addr, amount, rpc) IN
        /\ Called(r.f, Ret("SubBalance", addr, "", amount, r.val, <<>>, FALSE, "none"))
        /\ touched' = touched \cup {<<"balance", addr, "">>}
        /\ UNCHANGED <<taken, revoked, stale, seen, fresh>>

SetState(addr, key, value) ==
    \E rpc \in BOOLEAN :
        LET r == ForkedStateDB_SetState(fork, addr, key, value, rpc) IN
        /\ Called(r.f, Ret("SetState", addr, key, value, r.val, <<>>, FALSE, "none"))
        /\ touched' = touched \cup {<<"storage", addr, key>>}
        /\ UNCHANGED <<taken, revoked, stale, seen, fresh>>

CreateAccount(addr) ==
    /\ Called(ForkedStateDB_CreateAccount(fork, addr),
              Ret("CreateAccount", addr, "", 0, 0, <<>>, FALSE, "none"))
    /\ touched' = touched \cup {<<"balance", addr, "">>, <<"nonce", addr, "">>}
    /\ UNCHANGED <<taken, revoked, stale, seen, fresh>>

SelfDestruct(addr) ==
    \E rpc \in BOOLEAN :
        LET r == ForkedStateDB_SelfDestruct(fork, addr, rpc) IN
        /\ Called(r.f, Ret("SelfDestruct", addr, "", 0, r.val, <<>>, FALSE, "none"))
        /\ touched' = touched \cup {<<"balance", addr, "">>}
        /\ UNCHANGED <<taken, revoked, stale, seen, fresh>>

NextAdapter ==
    \/ \E a \in Addrs, v \in BalanceWrites : SetBalance(a, v)
    \/ \E a \in Addrs, v \in NonceWrites : SetNonce(a, v)
    \/ \E a \in Addrs, s \in Slots, v \in StorageWrites : SetStorageAt(a, s, v)
    \/ \E a \in Addrs, c \in CodeWrites : SetCode(a, c)
    \/ \E a \in Addrs, n \in Amounts : AddBalance(a, n)
    \/ \E a \in Addrs, n \in Amounts : SubBalance(a, n)
    \/ \E a \in Addrs, s \in Slots, v \in StorageWrites : SetState(a, s, v)
    \/ \E a \in Addrs : CreateAccount(a)
    \/ \E a \in Addrs : SelfDestruct(a)
    \/ \E a \in Addrs : GetCode(a)
    \/ \E b \in Blocks : Refork(b)

SpecAdapter == InitFork /\ [][NextAdapter]_vars

(* The LRU caches and the persistent store *)
Tiers23(f) == <<f.lruBalance, f.lruNonce, f.lruCode, f.lruStorage, f.db>>

PlainWrites == {"SetBalance", "SetNonce", "SetStorageAt", "CreateAccount"}
ReadingWrites == {"SetCode", "AddBalance", "SubBalance", "SetState", "SelfDestruct"}

(* The read a reading write starts with *)
ReadOf(op, f, a, s, rpc) ==
    CASE op = "SetCode" -> StateFork_GetCode(f, a, rpc)
      [] op = "SetState" -> StateFork_GetStorageAt(f, a, s, rpc)
      [] OTHER -> StateFork_GetBalance(f, a, rpc)

(* The kind of state a reading write reads *)
WriteKind(op) ==
    CASE op = "SetCode" -> "code"
      [] op = "SetState" -> "storage"
      [] OTHER -> "balance"

(* C7 as stated: every executor write leaves the LRU caches and the        *)
(* persistent store as they were before the call.                          *)
C7_Original ==
    [][\A op \in PlainWrites \cup ReadingWrites :
          IsCall(op) => Tiers23(fork') = Tiers23(fork)]_vars

(* C7 amended: SetBalance, SetNonce, SetStorageAt and CreateAccount leave  *)
(* the LRU caches and the persistent store as they were.  SetCode,         *)
(* AddBalance, SubBalance, SetState and SelfDestruct first read the key    *)
(* through the tiers, and change the LRU caches and the store exactly as   *)
(* that read does (not at all when the key is in tier 1); the value they   *)
(* write goes to tier 1 only.                                              *)
C7_WritesOnlyTier1 ==
    [][/\ \A op \in PlainWrites :
             IsCall(op) => Tiers23(fork') = Tiers23(fork)
       /\ \A op \in ReadingWrites :
             IsCall(op) =>
                /\ \E rpc \in BOOLEAN :
                      Tiers23(fork') =
                          Tiers23(ReadOf(op, fork, ret'.addr, ret'.slot, rpc).f)
                /\ T1Has(fork, WriteKind(op), ret'.addr, ret'.slot)
                      => Tiers23(fork') = Tiers23(fork)]_vars

(* AddBalance on a cold key fetched the historical balance into the LRU    *)
(* and the store, and wrote the sum to tier 1 only.                        *)
C7_Witness ==
    /\ ret.op = "AddBalance" /\ ret.addr = "A"
    /\ Has(fork.lruBalance, balanceKey(fork.blockNumber, "A"))
    /\ fork.lruBalance[balanceKey(fork.blockNumber, "A")] = ChainBalance(fork.blockNumber, "A")
    /\ fork.cache.balances["A"] = (ChainBalance(fork.blockNumber, "A") + 1) % UintModulus
    /\ fork.cache.balances["A"] # ChainBalance(fork.blockNumber, "A")
    /\ CacheDB_GetBalance(fork.db, fork.blockNumber, "A").ok
    /\ CacheDB_GetBalance(fork.db, fork.blockNumber, "A").val = ChainBalance(fork.blockNumber, "A")

---------------------------------------------------------------------------
(* ExecuteBundle on a fork: the bundle simulator calls ExecuteTransaction  *)
(* for each transaction; inside ApplyMessage the interpreter calls the     *)
(* state-DB adapter and takes a snapshot per call frame, reverting to it   *)
(* when the frame fails.                                                   *)

EvmOps == {"GetCode", "AddBalance", "SetNonce", "SetState"}

EvmApply(op, f, a, rpc) ==
    CASE op = "GetCode" -> ForkedStateDB_GetCode(f, a, rpc).f
      [] op = "AddBalance" -> ForkedStateDB_AddBalance(f, a, 1, rpc).f
      [] op = "SetNonce" -> ForkedStateDB_SetNonce(f, a, 3)
      [] OTHER -> ForkedStateDB_SetState(f, a, "s", 5, rpc).f

ForkHistory == <<ret, steps, touched, taken, revoked, stale, seen, fresh, store, calc,
                 remote>>

ExecuteBundle(n) ==
    /\ exec.pc = "idle"
    /\ IF n = 0
       THEN /\ fork' = fork
            /\ exec' = [exec EXCEPT !.pc = "done", !.result = NilBundleResult]
       ELSE LET s == StateFork_Snapshot(fork) IN
            /\ fork' = s.f
            /\ exec' = [exec EXCEPT !.pc = "loop", !.n = n, !.i = 0,
                                    !.snapID = s.val, !.result = NewBundleResult]
    /\ hist' = [pre |-> fork, txlog |-> <<>>]
    /\ UNCHANGED ForkHistory

(* txlog entry: tier 1 when ExecuteTransaction was called and when it     *)
(* returned; dirty: tier 1 differed from start when ApplyMessage returned; *)
(* nested: a call frame's snapshot was on the stack at that moment.        *)
TxLog(i, start, end, dirty, nested) ==
    [i |-> i, start |-> start, end |-> end, dirty |-> dirty, nested |-> nested]

ExecuteTransaction ==
    /\ exec.pc = "loop"
    /\ \E senderOk, intrinsicOk \in BOOLEAN :
          LET b == ExecuteTransaction_Begin(fork, senderOk, intrinsicOk) IN
          /\ fork' = b.f
          /\ exec' = IF b.goerr
                     THEN [exec EXCEPT !.pc = "txret", !.sim = NilSimulationResult]
                     ELSE [exec EXCEPT !.pc = "evm", !.snap = b.snap,
                                       !.frames = <<>>]
          /\ hist' = [hist EXCEPT !.txlog =
                        Append(@, TxLog(exec.i, fork.cache, b.f.cache, FALSE, FALSE))]
    /\ UNCHANGED ForkHistory

EvmOp ==
    /\ exec.pc = "evm"
    /\ exec.evmSteps < MaxEvmSteps
    /\ \E op \in EvmOps, a \in Addrs, rpc \in BOOLEAN :
          fork' = EvmApply(op, fork, a, rpc)
    /\ exec' = [exec EXCEPT !.evmSteps = @ + 1]
    /\ UNCHANGED <<hist, ForkHistory>>

(* a call frame opens: evm.Call takes a snapshot *)
EvmEnter ==
    /\ exec.pc = "evm"
    /\ exec.evmSteps < MaxEvmSteps
    /\ Len(exec.frames) < MaxFrames
    /\ LET s == ForkedStateDB_Snapshot(fork) IN
       /\ fork' = s.f
       /\ exec' = [exec EXCEPT !.frames = Append(@, s.val), !.evmSteps = @ + 1]
    /\ UNCHANGED <<hist, ForkHistory>>

(* a call frame returns without error: its snapshot stays on the stack *)
EvmReturn ==
    /\ exec.pc = "evm"
    /\ exec.frames # <<>>
    /\ exec' = [exec EXCEPT !.frames = SubSeq(@, 1, Len(@) - 1)]
    /\ UNCHANGED <<fork, hist, ForkHistory>>

(* a call frame fails: evm.Call reverts to the frame's snapshot *)
EvmRevert ==
    /\ exec.pc = "evm"
    /\ exec.frames # <<>>
    /\ fork' = ForkedStateDB_RevertToSnapshot(fork, exec.frames[Len(exec.frames)])
    /\ exec' = [exec EXCEPT !.frames = SubSeq(@, 1, Len(@) - 1)]
    /\ UNCHANGED <<hist, ForkHistory>>

ApplyMessageReturns ==
    /\ exec.pc = "evm"
    /\ exec.frames = <<>>
    /\ \E outcome \in {"err", "failed", "ok"}, gas \in GasValues,
          reason \in ApplyErrors \cup VmErrors :
          /\ outcome = "err" => reason \in ApplyErrors
          /\ outcome # "err" => reason \in VmErrors
          /\ LET e == ExecuteTransaction_End(fork, exec.snap, outcome, gas, reason)
                 last == hist.txlog[Len(hist.txlog)]
             IN
             /\ fork' = e.f
             /\ exec' = [exec EXCEPT !.pc = "txret", !.sim = e.sim]
             /\ hist' = [hist EXCEPT !.txlog[Len(hist.txlog)] =
                           [last EXCEPT !.dirty = (fork.cache # last.start),
                                        !.nested = (Len(fork.snapshots) > exec.snap + 1),
                                        !.end = e.f.cache]]
    /\ UNCHANGED ForkHistory

ExecuteBundleLoop ==
    /\ exec.pc = "txret"
    /\ LET l == ExecuteBundle_Loop(fork, exec.snapID, exec.result, exec.i, exec.sim) IN
       /\ fork' = l.f
       /\ exec' = [exec EXCEPT
                      !.result = l.result,
                      !.i = IF l.stop THEN @ ELSE @ + 1,
                      !.pc = IF l.stop \/ exec.i + 1 = exec.n THEN "done" ELSE "loop"]
    /\ UNCHANGED <<hist, ForkHistory>>

(* Forks a bundle may be run on: a new fork, and a fork that has read a    *)
(* slot, taken a snapshot and written a balance.                           *)
PreForks ==
    {NewStateFork(b, NewCacheDB) : b \in Blocks} \cup
    {StateFork_SetBalance(
        StateFork_Snapshot(
            StateFork_GetStorageAt(NewStateFork(b, NewCacheDB), "A", "s", TRUE).f).f,
        "A", 12) : b \in Blocks}

InitExec ==
    /\ fork \in PreForks
    /\ ret = NoRet
    /\ steps = 0
    /\ touched = {}
    /\ taken = EmptyMap
    /\ revoked = {}
    /\ stale = {}
    /\ seen = EmptyMap
    /\ fresh = {}
    /\ exec = IdleExec
    /\ hist = [pre |-> fork, txlog |-> <<>>]
    /\ store = IdleStore
    /\ calc = IdleCalc
    /\ remote = IdleRemote

NextExec ==
    \/ \E n \in 0..MaxBundle : ExecuteBundle(n)
    \/ ExecuteTransaction
    \/ EvmOp
    \/ EvmEnter
    \/ EvmReturn
    \/ EvmRevert
    \/ ApplyMessageReturns
    \/ ExecuteBundleLoop

SpecExec == InitExec /\ [][NextExec]_vars

(* Property helpers for bundles *)
RECURSIVE SumGas(_)
SumGas(txs) == IF txs = <<>> THEN 0 ELSE txs[1].GasUsed + SumGas(Tail(txs))

BundleFailed ==
    /\ exec.pc = "done" /\ exec.n > 0
    /\ (exec.result.nil \/ ~exec.result.Success)

(* every entry of m is in m2 with the same value *)
Extends(m2, m) == \A k \in DOMAIN m : Has(m2, k) /\ m2[k] = m[k]

(* C2: when ExecuteBundle has failed (a transaction returned               *)
(* Success=false or ExecuteTransaction returned an error), tier 1 and the  *)
(* snapshot stack are what they were before the call; the LRU caches keep  *)
(* every entry they had and the store keeps every row it had.              *)
C2_FailedBundleRestores ==
    BundleFailed =>
        /\ fork.cache = hist.pre.cache
        /\ Len(fork.snapshots) = Len(hist.pre.snapshots)
        /\ fork.snapshots = hist.pre.snapshots
        /\ Extends(fork.lruBalance, hist.pre.lruBalance)
        /\ Extends(fork.lruNonce, hist.pre.lruNonce)
        /\ Extends(fork.lruCode, hist.pre.lruCode)
        /\ Extends(fork.lruStorage, hist.pre.lruStorage)
        /\ DOMAIN hist.pre.db.account_state \subseteq DOMAIN fork.db.account_state
        /\ Extends(fork.db.storage_state, hist.pre.db.storage_state)

(* A two-transaction bundle failed at its second transaction: the first    *)
(* had changed tier 1, the second had changed it inside a nested call      *)
(* frame, the fork had a snapshot and a written balance before the call,   *)
(* and the LRU gained an entry.                                            *)
C2_Witness ==
    /\ BundleFailed /\ ~exec.result.nil /\ exec.result.RevertedAt = 1
    /\ hist.txlog[1].end # hist.txlog[1].start
    /\ hist.txlog[2].dirty /\ hist.txlog[2].nested
    /\ Len(hist.pre.snapshots) = 1
    /\ fork.cache = hist.pre.cache
    /\ Tiers23(fork) # Tiers23(hist.pre)

(* C3: transactions run in list order, each starting from the tier 1 the   *)
(* previous one left; when transaction k returns Success=false the bundle  *)
(* returns Success=false, RevertedAt=k and k+1 results, of which only the  *)
(* last is a failure, and no later transaction has been started.           *)
C3_StopsAtFirstFailure ==
    /\ \A j \in DOMAIN hist.txlog :
          /\ hist.txlog[j].i = j - 1
          /\ j > 1 => hist.txlog[j].start = hist.txlog[j - 1].end
    /\ \A j \in DOMAIN exec.result.Transactions :
          exec.result.Transactions[j].TxHash = TxHash(j - 1)
    /\ (exec.pc = "done" /\ ~exec.result.nil /\ ~exec.result.Success) =>
          LET k == exec.result.RevertedAt IN
          /\ k >= 0 /\ k < exec.n
          /\ Len(exec.result.Transactions) = k + 1
          /\ ~exec.result.Transactions[k + 1].Success
          /\ \A j \in 1..k : exec.result.Transactions[j].Success
          /\ Len(hist.txlog) = k + 1
    /\ (exec.pc = "done" /\ ~exec.result.nil /\ exec.n > 0) =>
          (exec.result.Success <=>
              \A j \in DOMAIN exec.result.Transactions :
                  exec.result.Transactions[j].Success)

(* The first of two transactions failed after changing tier 1; the second  *)
(* was never started.                                                      *)
C3_Witness ==
    /\ exec.pc = "done" /\ exec.n = 2
    /\ ~exec.result.nil /\ ~exec.result.Success /\ exec.result.RevertedAt = 0
    /\ Len(exec.result.Transactions) = 1
    /\ Len(hist.txlog) = 1 /\ hist.txlog[1].dirty

(* C4: when every transaction of a non-empty bundle returned Success=true, *)
(* the bundle returns Success=true, RevertedAt=-1, one result per          *)
(* transaction in list order and the sum of their gas; tier 1 is what the  *)
(* last transaction left, each transaction having started from what the    *)
(* previous one left, and the bundle's snapshot is still on the stack.     *)
C4_AllSucceed ==
    (/\ exec.pc = "done" /\ exec.n > 0 /\ ~exec.result.nil
     /\ \A j \in DOMAIN exec.result.Transactions :
           exec.result.Transactions[j].Success)
        => /\ exec.result.Success
           /\ exec.result.RevertedAt = -1
           /\ Len(exec.result.Transactions) = exec.n
           /\ \A j \in 1..exec.n :
                 exec.result.Transactions[j].TxHash = TxHash(j - 1)
           /\ exec.result.TotalGasUsed = SumGas(exec.result.Transactions)
           /\ Len(hist.txlog) = exec.n
           /\ hist.txlog[1].start = hist.pre.cache
           /\ \A j \in 2..exec.n : hist.txlog[j].start = hist.txlog[j - 1].end
           /\ fork.cache = hist.txlog[exec.n].end
           /\ Len(fork.snapshots) > exec.snapID
           /\ fork.snapshots[exec.snapID + 1] = hist.pre.cache
           /\ SubSeq(fork.snapshots, 1, exec.snapID) = hist.pre.snapshots

(* Two transactions succeeded with different gas, each changed tier 1. *)
C4_Witness ==
    /\ exec.pc = "done" /\ exec.n = 2 /\ exec.result.Success
    /\ exec.result.TotalGasUsed = 51
    /\ hist.txlog[1].end # hist.txlog[1].start
    /\ hist.txlog[2].end # hist.txlog[2].start
    /\ fork.cache # hist.pre.cache

(* C5: when ExecuteTransaction returns a result with Success=false, tier 1 *)
(* is what it was when ExecuteTransaction was called and RevertReason is   *)
(* not empty; when it returns Success=true, tier 1 is what the execution   *)
(* left.                                                                   *)
C5_FailedTxRestores ==
    [][(exec.pc = "evm" /\ exec'.pc = "txret") =>
          /\ ~exec'.sim.goerr
          /\ ~exec'.sim.Success =>
                /\ fork'.cache = hist.txlog[Len(hist.txlog)].start
                /\ exec'.sim.RevertReason # ""
          /\ exec'.sim.Success => fork'.cache = fork.cache]_vars

(* A transaction that changed tier 1 inside a nested frame, on a fork some *)
(* earlier transaction had changed, returned Success=false with tier 1     *)
(* restored.                                                               *)
C5_Witness ==
    /\ exec.pc = "txret" /\ ~exec.sim.goerr /\ ~exec.sim.Success
    /\ exec.sim.RevertReason # ""
    /\ Len(hist.txlog) = 2
    /\ hist.txlog[2].dirty /\ hist.txlog[2].nested
    /\ hist.txlog[2].start # hist.pre.cache
    /\ fork.cache = hist.txlog[2].start

---------------------------------------------------------------------------
(* C11: Snapshot() returns the stack depth at the time of the push and     *)
(* leaves tier 1 as it is; RevertToSnapshot(h) called right after          *)
(* h = Snapshot() succeeds and leaves tier 1 and the stack as they were    *)
(* before the Snapshot, so the next Snapshot at that depth returns h       *)
(* again.                                                                  *)
C11_SnapshotRevertCycle ==
    [][/\ IsCall("Snapshot") =>
             /\ ret'.val = Len(fork.snapshots)
             /\ fork'.cache = fork.cache
             /\ SubSeq(fork'.snapshots, 1, Len(fork.snapshots)) = fork.snapshots
             /\ Len(fork'.snapshots) = Len(fork.snapshots) + 1
       /\ (IsCall("RevertToSnapshot") /\ ret.op = "Snapshot" /\ ret'.arg = ret.val) =>
             /\ ~ret'.err
             /\ fork'.cache = fork.cache
             /\ fork'.cache = taken[ret.val]
             /\ Len(fork'.snapshots) = ret.val
             /\ fork'.snapshots = SubSeq(fork.snapshots, 1, ret.val)]_vars

(* Five calls, all of them Snapshot or RevertToSnapshot: handle 1 was      *)
(* taken, reverted, taken again at the same depth and reverted again.      *)
C11_Witness ==
    /\ ret.op = "RevertToSnapshot" /\ ~ret.err /\ ret.arg = 1
    /\ Len(fork.snapshots) = 1
    /\ steps = 5
    /\ fork.cache = NewStateCache
    /\ fork.stats.RPCCalls = 0
    /\ touched = {}

(* C12: when ExecuteTransaction has returned Success=true, and when        *)
(* ExecuteBundle has returned Success=true, the snapshot stack is as deep  *)
(* as it was before the call.                                              *)
C12_PoppedOnCommit ==
    /\ (exec.pc = "txret" /\ ~exec.sim.goerr /\ exec.sim.Success)
          => Len(fork.snapshots) = exec.snap
    /\ (exec.pc = "done" /\ ~exec.result.nil /\ exec.result.Success)
          => Len(fork.snapshots) = Len(hist.pre.snapshots)

---------------------------------------------------------------------------
(* storage.CacheDB called directly: each call records what it returned,    *)
(* and written remembers the last value written for each field.            *)

StoreRet(op, kind, block, addr, slot, val, code, ok) ==
    [op |-> op, kind |-> kind, block |-> block, addr |-> addr, slot |-> slot,
     val |-> val, code |-> code, ok |-> ok]

StoreCalled(d, r, w) ==
    /\ store.n < MaxStoreOps
    /\ store' = [db |-> d, n |-> store.n + 1, written |-> w, ret |-> r]
    /\ UNCHANGED <<fork, ret, steps, touched, taken, revoked, stale, seen, fresh,
                   exec, hist, calc, remote>>

DbGetBalance(block, addr) ==
    LET r == CacheDB_GetBalance(store.db, block, addr) IN
    StoreCalled(store.db, StoreRet("Get", "balance", block, addr, "", r.val, <<>>, r.ok),
                store.written)

DbSetBalance(block, addr, balance) ==
    StoreCalled(CacheDB_SetBalance(store.db, block, addr, balance),
                StoreRet("Set", "balance", block, addr, "", balance, <<>>, TRUE),
                Put(store.written, <<"balance", block, addr, "">>, balance))

DbGetNonce(block, addr) ==
    LET r == CacheDB_GetNonce(store.db, block, addr) IN
    StoreCalled(store.db, StoreRet("Get", "nonce", block, addr, "", r.val, <<>>, r.ok),
                store.written)

DbSetNonce(block, addr, nonce) ==
    StoreCalled(CacheDB_SetNonce(store.db, block, addr, nonce),
                StoreRet("Set", "nonce", block, addr, "", nonce, <<>>, TRUE),
                Put(store.written, <<"nonce", block, addr, "">>, nonce))

DbGetCode(block, addr) ==
    LET r == CacheDB_GetCode(store.db, block, addr) IN
    StoreCalled(store.db, StoreRet("Get", "code", block, addr, "", 0, r.val, r.ok),
                store.written)

DbSetCode(block, addr, code) ==
    StoreCalled(CacheDB_SetCode(store.db, block, addr, code),
                StoreRet("Set", "code", block, addr, "", 0, code, TRUE),
                Put(store.written, <<"code", block, addr, "">>, code))

DbGetStorage(block, addr, slot) ==
    LET r == CacheDB_GetStorage(store.db, block, addr, slot) IN
    StoreCalled(store.db, StoreRet("Get", "storage", block, addr, slot, r.val, <<>>, r.ok),
                store.written)

DbSetStorage(block, addr, slot, value) ==
    StoreCalled(CacheDB_SetStorage(store.db, block, addr, slot, value),
                StoreRet("Set", "storage", block, addr, slot, value, <<>>, TRUE),
                Put(store.written, <<"storage", block, addr, slot>>, value))

NextStore ==
    \/ \E b \in Blocks, a \in Accounts : DbGetBalance(b, a)
    \/ \E b \in Blocks, a \in Accounts, v \in BalanceWrites : DbSetBalance(b, a, v)
    \/ \E b \in Blocks, a \in Accounts : DbGetNonce(b, a)
    \/ \E b \in Blocks, a \in Accounts, v \in NonceWrites : DbSetNonce(b, a, v)
    \/ \E b \in Blocks, a \in Accounts : DbGetCode(b, a)
    \/ \E b \in Blocks, a \in Accounts, v \in CodeWrites : DbSetCode(b, a, v)
    \/ \E b \in Blocks, a \in Accounts, s \in Slots : DbGetStorage(b, a, s)
    \/ \E b \in Blocks, a \in Accounts, s \in Slots, v \in StorageWrites :
          DbSetStorage(b, a, s, v)

SpecStore == InitFork /\ [][NextStore]_vars

StoreRetValue(r) == IF r.kind = "code" THEN r.code ELSE r.val

StoreKey(r) == <<r.kind, r.block, r.addr, r.slot>>

(* C13: a read of an account field returns the value last written to that  *)
(* field of the (block, address) row, whatever other fields of the row     *)
(* were written since, and is a miss when the field was never written.     *)
C13_FieldsIndependent ==
    (store.ret.op = "Get" /\ store.ret.kind \in {"balance", "nonce", "code"}) =>
        IF Has(store.written, StoreKey(store.ret))
        THEN /\ store.ret.ok
             /\ StoreRetValue(store.ret) = store.written[StoreKey(store.ret)]
        ELSE ~store.ret.ok

(* C14: a Get right after a Set of the same (block, key) returns the value *)
(* set and true, for balance, nonce, code and storage; a Get of a key with *)
(* no row is a miss; a Set repeated with the same value leaves the store   *)
(* as it is.                                                               *)
C14_RoundTrip ==
    [][(store'.n = store.n + 1) =>
          LET r == store.ret
              q == store'.ret
          IN
          /\ (r.op = "Set" /\ q.op = "Get" /\ StoreKey(q) = StoreKey(r)) =>
                (q.ok /\ StoreRetValue(q) = StoreRetValue(r))
          /\ (q.op = "Get" /\ q.kind # "storage"
                /\ ~Has(store.db.account_state, <<q.block, q.addr>>)) => ~q.ok
          /\ (q.op = "Get" /\ q.kind = "storage"
                /\ ~Has(store.db.storage_state, <<q.block, q.addr, q.slot>>)) => ~q.ok
          /\ (r.op = "Set" /\ q = r) => store'.db = store.db]_vars

---------------------------------------------------------------------------
(* PrewarmFromTrace on a fork *)

PrewarmFromTrace ==
    \E traceOk, accCommit, slotCommit \in BOOLEAN, addrs \in SUBSET Accounts :
    \E slots \in SUBSET (addrs \X Slots), accErr \in SUBSET addrs :
    \E slotErr \in SUBSET slots :
        LET t == TraceAnswer(traceOk, addrs, slots, accErr, slotErr, accCommit, slotCommit)
            r == StateFork_PrewarmFromTrace(fork, t)
        IN
        /\ ~traceOk => (addrs = {} /\ ~accCommit /\ ~slotCommit)
        /\ steps < MaxPrewarms
        /\ fork' = r.f
        /\ ret' = Ret("PrewarmFromTrace", "", "", 0, 0, <<>>, r.err, "none")
        /\ steps' = steps + 1
        /\ remote' = t
        /\ UNCHANGED <<touched, taken, revoked, stale, seen, fresh, exec, hist, store, calc>>

(* Forks a prewarm may run on: those a bundle may run on, and a fork that  *)
(* has already read the balance of B.                                      *)
PrewarmForks ==
    PreForks \cup
    {StateFork_GetBalance(NewStateFork(b, NewCacheDB), "B", TRUE).f : b \in Blocks}

InitPrewarm ==
    /\ fork \in PrewarmForks
    /\ ret = NoRet
    /\ steps = 0
    /\ touched = {}
    /\ taken = EmptyMap
    /\ revoked = {}
    /\ stale = {}
    /\ seen = EmptyMap
    /\ fresh = {}
    /\ exec = IdleExec
    /\ hist = [pre |-> fork, txlog |-> <<>>]
    /\ store = IdleStore
    /\ calc = IdleCalc
    /\ remote = IdleRemote

NextPrewarm == PrewarmFromTrace

SpecPrewarm == InitPrewarm /\ [][NextPrewarm]_vars

SameEntry(m2, m, k) == (Has(m2, k) <=> Has(m, k)) /\ (Has(m, k) => m2[k] = m[k])

(* C15: PrewarmFromTrace returns nil and leaves tier 1 and the snapshot    *)
(* stack alone; when the trace call fails the fork is unchanged; otherwise *)
(* it makes one batched call for the accounts if the trace names any and   *)
(* one for the slots if it names any; an account or slot whose batch       *)
(* result carries an error, like one the trace does not name, keeps the    *)
(* LRU entries and the store row it had.                                   *)
C15_PrewarmBestEffort ==
    [][IsCall("PrewarmFromTrace") =>
          LET t == remote'
              b == fork.blockNumber
              calls == (IF t.traceOk /\ t.addrs # {} THEN 1 ELSE 0)
                       + (IF t.traceOk /\ t.slots # {} THEN 1 ELSE 0)
          IN
          /\ ~ret'.err
          /\ fork'.cache = fork.cache
          /\ fork'.snapshots = fork.snapshots
          /\ ~t.traceOk => fork' = fork
          /\ fork'.stats = [fork.stats EXCEPT !.BatchedRPCCalls = @ + calls]
          /\ calls <= 2
          /\ \A a \in Accounts :
                (a \notin t.addrs \/ a \in t.accErr) =>
                    /\ SameEntry(fork'.lruBalance, fork.lruBalance, balanceKey(b, a))
                    /\ SameEntry(fork'.lruNonce, fork.lruNonce, balanceKey(b, a))
                    /\ SameEntry(fork'.lruCode, fork.lruCode, balanceKey(b, a))
                    /\ SameEntry(fork'.db.account_state, fork.db.account_state, <<b, a>>)
          /\ \A k \in Accounts \X Slots :
                (k \notin t.slots \/ k \in t.slotErr) =>
                    /\ SameEntry(fork'.lruStorage, fork.lruStorage,
                                 storageKey(b, k[1], k[2]))
                    /\ SameEntry(fork'.db.storage_state, fork.db.storage_state,
                                 <<b, k[1], k[2]>>)]_vars

(* A prewarm on a fork with a written balance and a snapshot: the trace    *)
(* named A and B and a slot of each, the results for B carried errors, so  *)
(* only A and its slot were stored, in two batched calls.                  *)
C15_Witness ==
    /\ ret.op = "PrewarmFromTrace" /\ remote.traceOk
    /\ remote.addrs = {"A", "B"} /\ remote.accErr = {"B"}
    /\ remote.slots = {<<"A", "s">>, <<"B", "s">>} /\ remote.slotErr = {<<"B", "s">>}
    /\ fork.stats.BatchedRPCCalls = 2
    /\ Has(fork.lruBalance, balanceKey(fork.blockNumber, "A"))
    /\ ~Has(fork.lruBalance, balanceKey(fork.blockNumber, "B"))
    /\ Has(fork.db.account_state, <<fork.blockNumber, "A">>)
    /\ ~Has(fork.db.account_state, <<fork.blockNumber, "B">>)
    /\ Has(fork.lruStorage, storageKey(fork.blockNumber, "A", "s"))
    /\ ~Has(fork.lruStorage, storageKey(fork.blockNumber, "B", "s"))
    /\ Len(fork.snapshots) = 1
    /\ Has(fork.cache.balances, "A") /\ fork.cache.balances["A"] = 12

----------------------------------------------------------------------------
(* The ground-truth recognizer (package backtest) *)

(* Token addresses, each by its leading byte: sortAddrs compares the bytes *)
(* of two addresses, and the five leading bytes are distinct.              *)
TokenAddress == [WETH |-> 192, USDC |-> 160, USDT |-> 218, DAI |-> 107, WBTC |-> 34]

KnownDEXes == <<"uniswap", "sushiswap", "shibaswap">>

trackedPairs ==
    <<[name |-> "WETH/USDC", tokenA |-> TokenAddress.WETH, tokenADec |-> 18,
       tokenB |-> TokenAddress.USDC, tokenBDec |-> 6],
      [name |-> "WETH/USDT", tokenA |-> TokenAddress.WETH, tokenADec |-> 18,
       tokenB |-> TokenAddress.USDT, tokenBDec |-> 6],
      [name |-> "WETH/DAI", tokenA |-> TokenAddress.WETH, tokenADec |-> 18,
       tokenB |-> TokenAddress.DAI, tokenBDec |-> 18],
      [name |-> "WETH/WBTC", tokenA |-> TokenAddress.WETH, tokenADec |-> 18,
       tokenB |-> TokenAddress.WBTC, tokenBDec |-> 8]>>

sortAddrs(a, b) == IF a < b THEN <<a, b>> ELSE <<b, a>>

(* The CREATE2 address of a pair: a hash of the factory, the two tokens    *)
(* and the init code hash, kept as the triple it is computed from.         *)
ComputePairAddress(dex, token0, token1) == <<dex, token0, token1>>

buildPairGroups ==
    LET group(p) ==
            LET s == sortAddrs(p.tokenA, p.tokenB)
            IN  [d \in 1..Len(KnownDEXes) |-> ComputePairAddress(KnownDEXes[d], s[1], s[2])]
        groups == [i \in 1..Len(trackedPairs) |-> group(trackedPairs[i])]
    IN  [tracked |-> UNION {{groups[i][d] : d \in 1..Len(KnownDEXes)} :
                            i \in 1..Len(trackedPairs)},
         groups |-> groups]

arePairMatched_AnyGroup(a, b) ==
    \E i, j \in 1..Len(buildPairGroups.groups) :
        /\ \E d \in 1..Len(KnownDEXes) : buildPairGroups.groups[i][d] = a
        /\ \E d \in 1..Len(KnownDEXes) : buildPairGroups.groups[j][d] = b

arePairMatched(a, b) ==
    \E i \in 1..Len(buildPairGroups.groups) :
        LET group == buildPairGroups.groups[i]
            hasA == \E d \in 1..Len(group) : group[d] = a
            hasB == \E d \in 1..Len(group) : group[d] = b
        IN  hasA /\ hasB

swapEventTopic == "Swap"

swapDirection_AnyOther(log) ==
    IF Len(log.Topics) < 1 \/ log.Topics[1] /= swapEventTopic THEN 0
    ELSE IF 32 * Len(log.Data) < 128 THEN 0
    ELSE IF log.Data[1] > 0 /\ log.Data[4] > 0 THEN 1
    ELSE IF log.Data[2] > 0 /\ log.Data[3] > 0 THEN -1
    ELSE 0

(* A log's Data is a sequence of 32-byte words; the four amounts are read  *)
(* with big.Int.SetBytes and so are never negative.                        *)
swapDirection(log) ==
    IF Len(log.Topics) < 1 \/ log.Topics[1] /= swapEventTopic THEN 0
    ELSE IF 32 * Len(log.Data) < 128 THEN 0
    ELSE LET amount0In == log.Data[1]
             amount1In == log.Data[2]
             amount0Out == log.Data[3]
             amount1Out == log.Data[4]
         IN  IF amount0In > 0 /\ amount1Out > 0 /\ amount1In = 0 /\ amount0Out = 0 THEN 1
             ELSE IF amount1In > 0 /\ amount0Out > 0 /\ amount0In = 0 /\ amount1Out = 0
                  THEN -1
             ELSE 0

(* poolSwaps of one receipt: the direction stored for a pool is that of    *)
(* the last of its logs with a non-zero direction.                         *)
RECURSIVE PoolSwaps(_, _)
PoolSwaps(logs, m) ==
    IF logs = <<>> THEN m
    ELSE LET log == Head(logs)
             dir == swapDirection(log)
         IN  PoolSwaps(Tail(logs),
                       IF log.Address \in buildPairGroups.tracked /\ dir /= 0
                       THEN Put(m, log.Address, dir) ELSE m)

(* FindActualArbitrages.  PoolsHit is built by ranging over a map, so its  *)
(* order is not fixed: it is kept as a set.  The double loop over pools    *)
(* finds a pair whatever the order, both tests being symmetric.            *)
FindActualArbitrages(blockNum, block, receipts, blockErr, receiptsErr) ==
    IF blockErr \/ receiptsErr THEN [arbs |-> <<>>, err |-> TRUE]
    ELSE
    LET receiptMap[i \in 0..Len(receipts)] ==
            IF i = 0 THEN EmptyMap ELSE Put(receiptMap[i - 1], receipts[i].TxHash, receipts[i])
        scan[i \in 0..Len(block)] ==
            IF i = 0 THEN <<>>
            ELSE LET tx == block[i]
                 IN  IF ~Has(receiptMap[Len(receipts)], tx.Hash) THEN scan[i - 1]
                     ELSE
                     LET receipt == receiptMap[Len(receipts)][tx.Hash]
                         poolSwaps == PoolSwaps(receipt.Logs, EmptyMap)
                         pools == DOMAIN poolSwaps
                         isArb == \E a, b \in pools :
                                     /\ a /= b
                                     /\ arePairMatched(a, b)
                                     /\ poolSwaps[a] /= poolSwaps[b]
                     IN  IF Cardinality(pools) < 2 \/ ~isArb THEN scan[i - 1]
                         ELSE Append(scan[i - 1],
                                     [TxHash |-> tx.Hash, BlockNumber |-> blockNum,
                                      From |-> tx.From, PoolsHit |-> pools,
                                      GasUsed |-> receipt.GasUsed])
    IN  [arbs |-> scan[Len(block)], err |-> FALSE]

(* Pools the logs of a block are emitted by: two pools of WETH/USDC, one   *)
(* of WETH/USDT, and a pool of a pair that is not tracked.                 *)
PoolP == ComputePairAddress("uniswap", TokenAddress.USDC, TokenAddress.WETH)
PoolQ == ComputePairAddress("sushiswap", TokenAddress.USDC, TokenAddress.WETH)
PoolR == ComputePairAddress("uniswap", TokenAddress.WETH, TokenAddress.USDT)
PoolX == ComputePairAddress("uniswap", TokenAddress.USDC, TokenAddress.USDT)

Log(address, topics, data) == [Address |-> address, Topics |-> topics, Data |-> data]

LogInputs ==
    {Log(a, <<swapEventTopic>>, d) : a \in {PoolP, PoolQ}, d \in {<<1, 0, 0, 1>>, <<0, 1, 1, 0>>}}
    \cup {Log(PoolP, <<swapEventTopic>>, <<1, 1, 0, 1>>),
          Log(PoolP, <<"Transfer">>, <<1, 0, 0, 1>>),
          Log(PoolQ, <<swapEventTopic>>, <<1, 0, 0>>),
          Log(PoolR, <<swapEventTopic>>, <<0, 1, 1, 0>>),
          Log(PoolX, <<swapEventTopic>>, <<0, 1, 1, 0>>)}

NewChain(blockNum) ==
    [op |-> "chain", blockNum |-> blockNum, block |-> <<>>, receipts |-> <<>>,
     arbs |-> <<>>, err |-> FALSE]

RECURSIVE CountLogs(_)
CountLogs(receipts) ==
    IF receipts = <<>> THEN 0 ELSE Len(Head(receipts).Logs) + CountLogs(Tail(receipts))

(* The chain includes one more transaction in the block. *)
BlockTransaction ==
    /\ calc.op = "chain"
    /\ Len(calc.block) < MaxTxs
    /\ LET h == Len(calc.block) + 1
       IN  calc' = [calc EXCEPT
                !.block = Append(@, [Hash |-> h, From |-> "A"]),
                !.receipts = Append(@, [TxHash |-> h, GasUsed |-> 21, Logs |-> <<>>])]
    /\ UNCHANGED <<fork, ret, steps, touched, taken, revoked, stale, seen, fresh,
                   exec, hist, store, remote>>

(* The last transaction of the block emits one more log. *)
EmitLog ==
    /\ calc.op = "chain"
    /\ calc.receipts /= <<>>
    /\ CountLogs(calc.receipts) < MaxLogs
    /\ \E log \in LogInputs :
        calc' = [calc EXCEPT !.receipts[Len(calc.receipts)].Logs = Append(@, log)]
    /\ UNCHANGED <<fork, ret, steps, touched, taken, revoked, stale, seen, fresh,
                   exec, hist, store, remote>>

FindArbitrages ==
    /\ calc.op = "chain"
    /\ \E blockErr, receiptsErr \in BOOLEAN :
        LET r == FindActualArbitrages(calc.blockNum, calc.block, calc.receipts,
                                      blockErr, receiptsErr)
        IN  calc' = [calc EXCEPT !.op = "FindActualArbitrages", !.arbs = r.arbs,
                                 !.err = r.err]
    /\ UNCHANGED <<fork, ret, steps, touched, taken, revoked, stale, seen, fresh,
                   exec, hist, store, remote>>

InitBacktest ==
    /\ fork \in {NewStateFork(b, NewCacheDB) : b \in Blocks}
    /\ ret = NoRet
    /\ steps = 0
    /\ touched = {}
    /\ taken = EmptyMap
    /\ revoked = {}
    /\ stale = {}
    /\ seen = EmptyMap
    /\ fresh = {}
    /\ exec = IdleExec
    /\ hist = [pre |-> fork, txlog |-> <<>>]
    /\ store = IdleStore
    /\ calc \in {NewChain(b) : b \in Blocks}
    /\ remote = IdleRemote

NextBacktest == BlockTransaction \/ EmitLog \/ FindArbitrages

SpecBacktest == InitBacktest /\ [][NextBacktest]_vars

Scanned == calc.op = "FindActualArbitrages" /\ ~calc.err

(* The logs of a receipt that are swaps on a tracked pool. *)
TrackedSwaps(receipt) ==
    {i \in 1..Len(receipt.Logs) :
        /\ receipt.Logs[i].Address \in buildPairGroups.tracked
        /\ swapDirection(receipt.Logs[i]) /= 0}

(* Two pools of one tracked token pair: the same sorted token0 and token1. *)
SamePair(p, q) ==
    \E i \in 1..Len(trackedPairs) :
        LET s == sortAddrs(trackedPairs[i].tokenA, trackedPairs[i].tokenB)
        IN  /\ p[2] = s[1] /\ p[3] = s[2]
            /\ q[2] = s[1] /\ q[3] = s[2]

(* Swap logs of the receipt on two distinct tracked pools of one pair, in  *)
(* different directions.                                                   *)
OpposedSwaps(receipt) ==
    \E i, j \in TrackedSwaps(receipt) :
        /\ receipt.Logs[i].Address /= receipt.Logs[j].Address
        /\ SamePair(receipt.Logs[i].Address, receipt.Logs[j].Address)
        /\ swapDirection(receipt.Logs[i]) /= swapDirection(receipt.Logs[j])

ArbHashes == [i \in 1..Len(calc.arbs) |-> calc.arbs[i].TxHash]

ExpectedHashes ==
    LET pick[i \in 0..Len(calc.block)] ==
            IF i = 0 THEN <<>>
            ELSE IF OpposedSwaps(calc.receipts[i]) THEN Append(pick[i - 1], calc.block[i].Hash)
            ELSE pick[i - 1]
    IN  pick[Len(calc.block)]

(* C16: FindActualArbitrages returns, once each and in block order,        *)
(* exactly the transactions whose receipt holds Swap logs of non-zero      *)
(* direction on two distinct tracked pools of one tracked pair in          *)
(* different directions, each with every tracked pool it swapped on in     *)
(* PoolsHit.                                                               *)
C16_ExactlyOpposedSwaps ==
    Scanned =>
        /\ ArbHashes = ExpectedHashes
        /\ \A i \in 1..Len(calc.arbs) :
            LET receipt == calc.receipts[calc.arbs[i].TxHash]
            IN  calc.arbs[i].PoolsHit =
                    {receipt.Logs[k].Address : k \in TrackedSwaps(receipt)}

(* C17: a reported transaction has, in its own receipt, swaps on tracked   *)
(* pools in two different directions and swaps on two pools of one tracked *)
(* pair; swaps taken from two different transactions never make a report.  *)
C17_NoFalsePositives ==
    Scanned =>
        \A i \in 1..Len(calc.arbs) :
            LET receipt == calc.receipts[calc.arbs[i].TxHash]
                swaps == TrackedSwaps(receipt)
            IN  /\ calc.block[calc.arbs[i].TxHash].Hash = calc.arbs[i].TxHash
                /\ \E a, b \in swaps :
                    swapDirection(receipt.Logs[a]) /= swapDirection(receipt.Logs[b])
                /\ \E a, b \in swaps :
                    /\ receipt.Logs[a].Address /= receipt.Logs[b].Address
                    /\ SamePair(receipt.Logs[a].Address, receipt.Logs[b].Address)
                /\ OpposedSwaps(receipt)

(* Two transactions that each swap on one pool of WETH/USDC, in opposite   *)
(* directions, scanned with an empty result.                               *)
C17_Witness ==
    /\ Scanned
    /\ Len(calc.block) = 2
    /\ calc.receipts[1].Logs = <<Log(PoolP, <<swapEventTopic>>, <<1, 0, 0, 1>>)>>
    /\ calc.receipts[2].Logs = <<Log(PoolQ, <<swapEventTopic>>, <<0, 1, 1, 0>>)>>
    /\ calc.arbs = <<>>

----------------------------------------------------------------------------
(* Constant-product arithmetic (package arbitrage, math.go) *)

(* big.Int arithmetic has no upper limit.  MulDivRem(a, b, c) is the       *)
(* quotient and the remainder of a * b by c, reached by doubling so that   *)
(* no intermediate value is larger than 3 * c.                             *)
RECURSIVE MulDivRem(_, _, _)
MulDivRem(a, b, c) ==
    IF b = 0 THEN <<0, 0>>
    ELSE LET half == MulDivRem(a, b \div 2, c)
             odd == b % 2 = 1
             t == 2 * half[2] + (IF odd THEN a % c ELSE 0)
         IN  <<2 * half[1] + (IF odd THEN a \div c ELSE 0) + t \div c, t % c>>

(* A swap whose denominator is built from the wrong reserve. *)
GetAmountOut_WrongReserve(amountIn, reserveIn, reserveOut) ==
    IF amountIn <= 0 \/ reserveIn <= 0 \/ reserveOut <= 0 THEN 0
    ELSE (amountIn * 997 * reserveOut) \div (reserveOut * 1000 + amountIn * 997)

(* A swap that rounds the quotient up. *)
GetAmountOut_RoundsUp(amountIn, reserveIn, reserveOut) ==
    IF amountIn <= 0 \/ reserveIn <= 0 \/ reserveOut <= 0 THEN 0
    ELSE LET denominator == reserveIn * 1000 + amountIn * 997
         IN  (amountIn * 997 * reserveOut + denominator - 1) \div denominator

GetAmountOut(amountIn, reserveIn, reserveOut) ==
    IF amountIn <= 0 \/ reserveIn <= 0 \/ reserveOut <= 0 THEN 0
    ELSE LET amountInWithFee == amountIn * 997
             denominator == reserveIn * 1000 + amountInWithFee
             amountOut == MulDivRem(amountInWithFee, reserveOut, denominator)[1]
         IN  amountOut

(* A swap to be computed: the amount and the two reserves, zero reserves   *)
(* and a negative amount included.                                         *)
SwapInputs ==
    [op : {"input"}, amountIn : -1..MaxAmountIn, reserveIn : 0..MaxReserve,
     reserveOut : 0..MaxReserve, out : {0}, back : {0}]

(* GetAmountOut on the inputs. *)
Swap ==
    /\ calc.op = "input"
    /\ calc' = [calc EXCEPT !.op = "GetAmountOut",
                            !.out = GetAmountOut(calc.amountIn, calc.reserveIn, calc.reserveOut)]
    /\ UNCHANGED <<fork, ret, steps, touched, taken, revoked, stale, seen, fresh,
                   exec, hist, store, remote>>

(* GetAmountOut on the amount received, through the same pool the other    *)
(* way round.                                                              *)
SwapBack ==
    /\ calc.op = "GetAmountOut"
    /\ calc' = [calc EXCEPT !.op = "SwapBack",
                            !.back = GetAmountOut(calc.out, calc.reserveOut, calc.reserveIn)]
    /\ UNCHANGED <<fork, ret, steps, touched, taken, revoked, stale, seen, fresh,
                   exec, hist, store, remote>>

InitAmm ==
    /\ fork \in {NewStateFork(b, NewCacheDB) : b \in Blocks}
    /\ ret = NoRet
    /\ steps = 0
    /\ touched = {}
    /\ taken = EmptyMap
    /\ revoked = {}
    /\ stale = {}
    /\ seen = EmptyMap
    /\ fresh = {}
    /\ exec = IdleExec
    /\ hist = [pre |-> fork, txlog |-> <<>>]
    /\ store = IdleStore
    /\ calc \in SwapInputs
    /\ remote = IdleRemote

NextAmm == Swap \/ SwapBack

SpecAmm == InitAmm /\ [][NextAmm]_vars

(* A swap computed on positive reserves from an amount that is not         *)
(* negative.                                                               *)
Swapped ==
    /\ calc.op \in {"GetAmountOut", "SwapBack"}
    /\ calc.reserveIn > 0 /\ calc.reserveOut > 0
    /\ calc.amountIn >= 0

NextOut == GetAmountOut(calc.amountIn + 1, calc.reserveIn, calc.reserveOut)

(* C19 as stated: GetAmountOut is non-decreasing in x for x >= 0 and       *)
(* strictly increasing for every 0 <= x < rIn.                             *)
C19_StrictBelowReserve ==
    Swapped =>
        /\ NextOut >= calc.out
        /\ calc.amountIn < calc.reserveIn => NextOut > calc.out

(* C19: GetAmountOut is non-decreasing in x for x >= 0, and strictly       *)
(* increasing for every 0 <= x < rIn when rOut is at least five times rIn. *)
C19_Monotone ==
    Swapped =>
        /\ NextOut >= calc.out
        /\ (calc.amountIn < calc.reserveIn /\ calc.reserveOut >= 5 * calc.reserveIn)
               => NextOut > calc.out

(* One unit swapped into a pool of 2 against 10: 3 out, and 4 for 2.       *)
C19_Witness ==
    /\ calc.op = "GetAmountOut"
    /\ calc.amountIn = 1 /\ calc.reserveIn = 2 /\ calc.reserveOut = 10
    /\ calc.out = 3
    /\ NextOut = 4

(* C20: for positive reserves and 0 < x <= r0, swapping x and swapping the *)
(* proceeds back returns strictly less than x.                             *)
C20_RoundTripLoses ==
    (calc.op = "SwapBack" /\ calc.reserveIn > 0 /\ calc.reserveOut > 0
        /\ 0 < calc.amountIn /\ calc.amountIn <= calc.reserveIn)
    => /\ calc.back = GetAmountOut(GetAmountOut(calc.amountIn, calc.reserveIn, calc.reserveOut),
                                   calc.reserveOut, calc.reserveIn)
       /\ calc.back < calc.amountIn

(* 10 swapped into a pool of 10 against 10 gives 4, which swaps back to 2. *)
C20_Witness ==
    /\ calc.op = "SwapBack"
    /\ calc.amountIn = 10 /\ calc.reserveIn = 10 /\ calc.reserveOut = 10
    /\ calc.out = 4
    /\ calc.back = 2

----------------------------------------------------------------------------
(* Opportunity detection (package arbitrage, detector.go and math.go).     *)
(* Amounts of token0 are counted in units of 10^6, the factor of the       *)
(* search range.  A big.Float price is kept as the exact fraction          *)
(* num/den * 10^exp: with the reserves used here no two different          *)
(* fractions round to the same float.                                      *)

minAmount == 100
maxAmount == 10000

(* Gas prices are in gwei and gas limits in thousands of gas. *)
RunnerGasPrice == 30
RunnerGasLimit == 300
SearchSteps == 20

(* big.Int.Exp(10, y, nil) is 1 for y <= 0. *)
CalculatePrice(reserve0, reserve1, decimals0, decimals1) ==
    [num |-> reserve0, den |-> reserve1,
     exp |-> IF decimals1 - decimals0 <= 0 THEN 0 ELSE decimals1 - decimals0]

(* Prices listed from the last pool to the first. *)
GetPoolPrices_Reversed(pair) ==
    [i \in 1..Len(pair.Pools) |->
        LET pool == pair.Pools[Len(pair.Pools) + 1 - i]
        IN  [PoolAddress |-> pool.Address,
             DEX |-> pool.DEX,
             Token1PerToken0 |-> CalculatePrice(pool.Reserve0, pool.Reserve1,
                                                pair.Token0Dec, pair.Token1Dec),
             Token0PerToken1 |-> CalculatePrice(pool.Reserve1, pool.Reserve0,
                                                pair.Token1Dec, pair.Token0Dec)]]

GetPoolPrices(pair) ==
    [i \in 1..Len(pair.Pools) |->
        [PoolAddress |-> pair.Pools[i].Address,
         DEX |-> pair.Pools[i].DEX,
         Token1PerToken0 |-> CalculatePrice(pair.Pools[i].Reserve0, pair.Pools[i].Reserve1,
                                            pair.Token0Dec, pair.Token1Dec),
         Token0PerToken1 |-> CalculatePrice(pair.Pools[i].Reserve1, pair.Pools[i].Reserve0,
                                            pair.Token1Dec, pair.Token0Dec)]]

(* big.Float.Cmp of two prices with the same decimal adjustment. *)
Cmp(price1, price2) ==
    LET l == price1.num * price2.den
        r == price2.num * price1.den
    IN  IF l < r THEN -1 ELSE IF l > r THEN 1 ELSE 0

(* The difference in percent of the lower price, as a fraction. *)
ComparePrices(price1, price2) ==
    LET cmp == Cmp(price1, price2)
        higher == IF cmp > 0 THEN price1 ELSE price2
        lower == IF cmp > 0 THEN price2 ELSE price1
    IN  IF cmp = 0 THEN [num |-> 0, den |-> 1]
        ELSE [num |-> 100 * (higher.num * lower.den - lower.num * higher.den),
              den |-> lower.num * higher.den]

SimulateArbitrage(amountIn, cheapPool, expensivePool, token0IsBuyToken) ==
    LET buyReserveIn == IF token0IsBuyToken THEN cheapPool.Reserve1 ELSE cheapPool.Reserve0
        buyReserveOut == IF token0IsBuyToken THEN cheapPool.Reserve0 ELSE cheapPool.Reserve1
        sellReserveIn ==
            IF token0IsBuyToken THEN expensivePool.Reserve0 ELSE expensivePool.Reserve1
        sellReserveOut ==
            IF token0IsBuyToken THEN expensivePool.Reserve1 ELSE expensivePool.Reserve0
        amountBought == GetAmountOut(amountIn, buyReserveIn, buyReserveOut)
        amountOut == GetAmountOut(amountBought, sellReserveIn, sellReserveOut)
    IN  amountOut - amountIn

(* One turn of the search loop on <<left, right, bestInput, bestProfit>>. *)
SearchStep(s, cheapPool, expensivePool, token0IsBuyToken) ==
    LET third == (s.right - s.left) \div 3
        mid1 == s.left + third
        mid2 == s.left + third * 2
        profit1 == SimulateArbitrage(mid1, cheapPool, expensivePool, token0IsBuyToken)
        profit2 == SimulateArbitrage(mid2, cheapPool, expensivePool, token0IsBuyToken)
        b1 == IF profit1 > s.bestProfit
              THEN [bestProfit |-> profit1, bestInput |-> mid1]
              ELSE [bestProfit |-> s.bestProfit, bestInput |-> s.bestInput]
        b2 == IF profit2 > b1.bestProfit
              THEN [bestProfit |-> profit2, bestInput |-> mid2]
              ELSE b1
    IN  [left |-> IF profit1 > profit2 THEN s.left ELSE mid1,
         right |-> IF profit1 > profit2 THEN mid2 ELSE s.right,
         bestInput |-> b2.bestInput,
         bestProfit |-> b2.bestProfit]

(* The search loop: i more turns on <<left, right, bestInput, bestProfit>>. *)
(* Each turn is computed before the next one starts: the singleton sets    *)
(* only fix that order.                                                    *)
RECURSIVE Search(_, _, _, _, _)
Search(s, i, cheapPool, expensivePool, token0IsBuyToken) ==
    IF i = 0 THEN s
    ELSE CHOOSE r \in {Search(next, i - 1, cheapPool, expensivePool, token0IsBuyToken) :
                          next \in {SearchStep(s, cheapPool, expensivePool,
                                               token0IsBuyToken)}} : TRUE

(* A search whose best input starts from zero and not from minAmount. *)
FindOptimalInput_BestFromZero(cheapPool, expensivePool, token0IsBuyToken, lo, hi) ==
    LET found == Search([left |-> lo, right |-> hi, bestInput |-> 0,
                         bestProfit |-> SimulateArbitrage(lo, cheapPool, expensivePool,
                                                          token0IsBuyToken)],
                        SearchSteps, cheapPool, expensivePool, token0IsBuyToken)
    IN  <<found.bestInput, found.bestProfit>>

FindOptimalInput(cheapPool, expensivePool, token0IsBuyToken, lo, hi) ==
    LET found == Search([left |-> lo, right |-> hi, bestInput |-> lo,
                         bestProfit |-> SimulateArbitrage(lo, cheapPool, expensivePool,
                                                          token0IsBuyToken)],
                        SearchSteps, cheapPool, expensivePool, token0IsBuyToken)
    IN  <<found.bestInput, found.bestProfit>>

NilOpportunity == [nil |-> TRUE]

(* The gas cost in token0 units, detector.go:41-52.  The cost in wei is    *)
(* turned into a float, divided by 10^18 and by the first pool's price and *)
(* multiplied by 10^6; with the positive reserves GetPairPools leaves, the *)
(* price is positive and finite and no operation has an undefined result.  *)
(* The float is then dropped for a constant zero.                          *)
GasCostUSDC_Charged(price, gasPrice, gasLimit) == gasPrice * gasLimit

GasCostUSDC(price, gasPrice, gasLimit) ==
    LET gasCostWei == gasPrice * gasLimit
        gasCostFloat == [num |-> gasCostWei * price.den, den |-> price.num,
                         exp |-> 12 + 6 - 18 - price.exp]
    IN  0

(* DetectOpportunity(pair, gasPrice, gasLimit). *)
DetectOpportunityAt(pair, gasPrice, gasLimit) ==
    IF Len(pair.Pools) < 2
    THEN [opp |-> NilOpportunity, err |-> "need at least 2 pools to detect arbitrage"]
    ELSE
    LET prices == GetPoolPrices(pair)
    IN
    IF Len(prices) < 2
    THEN [opp |-> NilOpportunity, err |-> "failed to calculate prices"]
    ELSE
    LET priceDiff == ComparePrices(prices[1].Token1PerToken0, prices[2].Token1PerToken0)
    IN
    (* priceDiff < 0.05, that is 20 * num < den *)
    IF priceDiff.num <= (priceDiff.den - 1) \div 20
    THEN [opp |-> NilOpportunity, err |-> ""]
    ELSE
    LET lower == Cmp(prices[1].Token1PerToken0, prices[2].Token1PerToken0) < 0
        cheapPool == IF lower THEN pair.Pools[1] ELSE pair.Pools[2]
        expensivePool == IF lower THEN pair.Pools[2] ELSE pair.Pools[1]
        found == FindOptimalInput(cheapPool, expensivePool, FALSE, minAmount, maxAmount)
        optimalIn == found[1]
        grossProfit == found[2]
        gasCostUSDC == GasCostUSDC(prices[1].Token1PerToken0, gasPrice, gasLimit)
        netProfit == grossProfit - gasCostUSDC
    IN  IF netProfit <= 0
        THEN [opp |-> NilOpportunity, err |-> ""]
        ELSE [opp |-> [nil |-> FALSE,
                       Pair |-> <<"WETH", pair.Pools[1].DEX>>,
                       BuyPool |-> cheapPool,
                       SellPool |-> expensivePool,
                       PriceDiff |-> priceDiff,
                       EstProfit |-> netProfit,
                       OptimalIn |-> optimalIn,
                       BlockNumber |-> 0],
              err |-> ""]

(* The runner's call: r.gasPrice is 30 gwei and r.gasLimit 300000 gas.     *)
DetectOpportunity(pair) == DetectOpportunityAt(pair, RunnerGasPrice, RunnerGasLimit)

sortTokens(tokenA, tokenADec, tokenB, tokenBDec) ==
    IF tokenA < tokenB THEN <<tokenA, tokenADec, tokenB, tokenBDec>>
    ELSE <<tokenB, tokenBDec, tokenA, tokenADec>>

(* Reserves of the pools of a pair: GetPairPools skips a pool with a zero  *)
(* reserve, so every reserve is positive.                                  *)
ReserveInputs == {50, 199, 200, 201, 1000}

(* The PairPools of a tracked pair with pools on the first n DEXes. *)
PairPoolsOf(p, reserves) ==
    LET t == sortTokens(p.tokenA, p.tokenADec, p.tokenB, p.tokenBDec)
    IN  [Token0 |-> t[1], Token1 |-> t[3], Token0Dec |-> t[2], Token1Dec |-> t[4],
         Pools |-> [i \in 1..Len(reserves) |->
                       [Address |-> ComputePairAddress(KnownDEXes[i], t[1], t[3]),
                        Token0 |-> t[1], Token1 |-> t[3],
                        Reserve0 |-> reserves[i][1], Reserve1 |-> reserves[i][2],
                        DEX |-> KnownDEXes[i]]]]

PairInputs ==
    {PairPoolsOf(trackedPairs[k], reserves) :
        k \in {1, 3},
        reserves \in UNION {[1..n -> ReserveInputs \X ReserveInputs] : n \in 0..2}
                     \cup {Append(r, <<50, 200>>) :
                              r \in [1..2 -> ReserveInputs \X ReserveInputs]}}

Detect ==
    /\ calc.op = "pair"
    /\ LET r == DetectOpportunity(calc.pair)
       IN  calc' = [calc EXCEPT !.op = "DetectOpportunity", !.opp = r.opp, !.err = r.err]
    /\ UNCHANGED <<fork, ret, steps, touched, taken, revoked, stale, seen, fresh,
                   exec, hist, store, remote>>

InitDetect ==
    /\ fork \in {NewStateFork(b, NewCacheDB) : b \in Blocks}
    /\ ret = NoRet
    /\ steps = 0
    /\ touched = {}
    /\ taken = EmptyMap
    /\ revoked = {}
    /\ stale = {}
    /\ seen = EmptyMap
    /\ fresh = {}
    /\ exec = IdleExec
    /\ hist = [pre |-> fork, txlog |-> <<>>]
    /\ store = IdleStore
    /\ calc \in [op : {"pair"}, pair : PairInputs, opp : {NilOpportunity}, err : {""}]
    /\ remote = IdleRemote

NextDetect == Detect

SpecDetect == InitDetect /\ [][NextDetect]_vars

Detected == calc.op = "DetectOpportunity"

(* Pool a has the strictly lower token1-per-token0 price, reserve0 over    *)
(* reserve1, of the two.                                                   *)
LowerPrice(a, b) == a.Reserve0 * b.Reserve1 < b.Reserve0 * a.Reserve1

(* The spread of the first two pools, in percent of the lower price, is    *)
(* below 0.05.                                                             *)
BelowThreshold(a, b) ==
    LET hi == IF LowerPrice(a, b) THEN b ELSE a
        lo == IF LowerPrice(a, b) THEN a ELSE b
        spread == 100 * (hi.Reserve0 * lo.Reserve1 - lo.Reserve0 * hi.Reserve1)
        lower == lo.Reserve0 * hi.Reserve1
    IN  \/ spread < lower \div 20
        \/ spread = lower \div 20 /\ lower % 20 > 0

(* The best profit the search finds between the first two pools, bought   *)
(* on the one with the lower price.                                        *)
BestProfit(a, b) ==
    IF LowerPrice(a, b) THEN FindOptimalInput(a, b, FALSE, minAmount, maxAmount)[2]
    ELSE FindOptimalInput(b, a, FALSE, minAmount, maxAmount)[2]

(* C18: a returned Opportunity buys on the pool with the strictly lower    *)
(* price and sells on the other, two distinct pools of the pair, with      *)
(* EstProfit > 0, PriceDiff >= 0.05 and OptimalIn within the search range; *)
(* the result is (nil, nil) when the spread is below the threshold or the  *)
(* best profit found is not positive, and an error with fewer than two     *)
(* pools.                                                                  *)
C18_OpportunityShape ==
    Detected =>
        LET pools == calc.pair.Pools
            opp == calc.opp
        IN  /\ Len(pools) < 2 => (opp.nil /\ calc.err /= "")
            /\ Len(pools) >= 2 => calc.err = ""
            /\ (Len(pools) >= 2 /\ BelowThreshold(pools[1], pools[2])) => opp.nil
            /\ (Len(pools) >= 2 /\ ~BelowThreshold(pools[1], pools[2])
                /\ BestProfit(pools[1], pools[2]) <= 0)
               => opp.nil
            /\ ~opp.nil =>
                /\ \E i, j \in 1..Len(pools) :
                    /\ i /= j
                    /\ opp.BuyPool = pools[i]
                    /\ opp.SellPool = pools[j]
                /\ opp.BuyPool.Address /= opp.SellPool.Address
                /\ LowerPrice(opp.BuyPool, opp.SellPool)
                /\ opp.EstProfit > 0
                /\ opp.EstProfit =
                       SimulateArbitrage(opp.OptimalIn, opp.BuyPool, opp.SellPool, FALSE)
                /\ \/ opp.PriceDiff.num > opp.PriceDiff.den \div 20
                   \/ /\ opp.PriceDiff.num = opp.PriceDiff.den \div 20
                      /\ opp.PriceDiff.den % 20 = 0
                /\ minAmount <= opp.OptimalIn /\ opp.OptimalIn <= maxAmount

(* An opportunity found between a pool of 200 against 1000 and a pool of   *)
(* 1000 against 200: the search settles on 136 in, for 532 of profit.      *)
C18_Witness ==
    /\ Detected
    /\ ~calc.opp.nil
    /\ calc.opp.BuyPool = calc.pair.Pools[1]
    /\ calc.opp.SellPool = calc.pair.Pools[2]
    /\ calc.opp.BuyPool.Reserve0 = 200 /\ calc.opp.BuyPool.Reserve1 = 1000
    /\ calc.opp.SellPool.Reserve0 = 1000 /\ calc.opp.SellPool.Reserve1 = 200
    /\ calc.opp.OptimalIn = 136
    /\ calc.opp.EstProfit = 532

(* x \div 10^e, computed without forming 10^e. *)
RECURSIVE DivPow10(_, _)
DivPow10(x, e) == IF e = 0 THEN x ELSE DivPow10(x \div 10, e - 1)

(* x is at most m * 10^e. *)
AtMostPow10(x, m, e) ==
    \/ DivPow10(x, e) < m
    \/ DivPow10(x, e) = m /\ \A k \in 1..e : DivPow10(x, k - 1) % 10 = 0

(* C36: the input of a returned Opportunity lies in the range              *)
(* [100 * 10^dec0, 10000 * 10^dec0] of token0 base units that the search   *)
(* is to cover, dec0 being the pair's Token0Dec.  Amounts are in units of  *)
(* 10^6 base units, and no tracked pair has dec0 below 6.                  *)
C36_RangeByDecimals ==
    (Detected /\ ~calc.opp.nil) =>
        /\ calc.pair.Token0Dec >= 6
        /\ DivPow10(calc.opp.OptimalIn, calc.pair.Token0Dec - 6) >= 100
        /\ AtMostPow10(calc.opp.OptimalIn, 10000, calc.pair.Token0Dec - 6)

----------------------------------------------------------------------------
(* FindOptimalInput on a range of its caller's choosing *)

(* Every variable but calc, at rest. *)
IdleOthers ==
    /\ fork \in {NewStateFork(b, NewCacheDB) : b \in Blocks}
    /\ ret = NoRet
    /\ steps = 0
    /\ touched = {}
    /\ taken = EmptyMap
    /\ revoked = {}
    /\ stale = {}
    /\ seen = EmptyMap
    /\ fresh = {}
    /\ exec = IdleExec
    /\ hist = [pre |-> fork, txlog |-> <<>>]
    /\ store = IdleStore
    /\ remote = IdleRemote

OthersUnchanged ==
    UNCHANGED <<fork, ret, steps, touched, taken, revoked, stale, seen, fresh,
                exec, hist, store, remote>>

SearchPools ==
    {[Reserve0 |-> r[1], Reserve1 |-> r[2]] : r \in {<<5, 20>>, <<20, 5>>, <<200, 1000>>}}

SearchInputs ==
    [op : {"range"}, cheapPool : SearchPools, expensivePool : SearchPools,
     token0IsBuyToken : BOOLEAN, minAmount : 1..MaxSearch, maxAmount : 1..MaxSearch,
     optimalInput : {0}, maxProfit : {0}]

FindOptimalInputCall ==
    /\ calc.op = "range"
    /\ LET r == FindOptimalInput(calc.cheapPool, calc.expensivePool, calc.token0IsBuyToken,
                                 calc.minAmount, calc.maxAmount)
       IN  calc' = [calc EXCEPT !.op = "FindOptimalInput", !.optimalInput = r[1],
                                !.maxProfit = r[2]]
    /\ OthersUnchanged

InitSearch == IdleOthers /\ calc \in SearchInputs

NextSearch == FindOptimalInputCall

SpecSearch == InitSearch /\ [][NextSearch]_vars

(* C21: called with minAmount > maxAmount, FindOptimalInput returns        *)
(* minAmount and the profit of minAmount.                                  *)
C21_MinAboveMax ==
    (calc.op = "FindOptimalInput" /\ calc.minAmount > calc.maxAmount) =>
        /\ calc.optimalInput = calc.minAmount
        /\ calc.maxProfit = SimulateArbitrage(calc.minAmount, calc.cheapPool,
                                              calc.expensivePool, calc.token0IsBuyToken)

(* The loop's variables after i turns of a call with calc's arguments. *)
SearchAfter(i) ==
    Search([left |-> calc.minAmount, right |-> calc.maxAmount,
            bestInput |-> calc.minAmount,
            bestProfit |-> SimulateArbitrage(calc.minAmount, calc.cheapPool,
                                             calc.expensivePool, calc.token0IsBuyToken)],
           i, calc.cheapPool, calc.expensivePool, calc.token0IsBuyToken)

ProfitAt(x) ==
    SimulateArbitrage(x, calc.cheapPool, calc.expensivePool, calc.token0IsBuyToken)

(* The interval has collapsed when a third of it is zero: both probes are  *)
(* then the left end and no further turn moves either end.                 *)
Collapsed(s) == (s.right - s.left) \div 3 = 0

(* What holds of every call with minAmount <= maxAmount: the interval     *)
(* stays in the range and the result is an input of the range with its    *)
(* profit, no less than the profit of minAmount.                           *)
C35_SearchBounds ==
    (calc.op = "FindOptimalInput" /\ calc.minAmount <= calc.maxAmount) =>
        /\ \A i \in 0..SearchSteps :
              /\ calc.minAmount <= SearchAfter(i).left
              /\ SearchAfter(i).left <= SearchAfter(i).right
              /\ SearchAfter(i).right <= calc.maxAmount
        /\ calc.optimalInput = SearchAfter(SearchSteps).bestInput
        /\ calc.optimalInput \in calc.minAmount..calc.maxAmount
        /\ calc.maxProfit = ProfitAt(calc.optimalInput)
        /\ calc.maxProfit >= ProfitAt(calc.minAmount)

(* C35: for minAmount <= maxAmount, FindOptimalInput keeps its interval    *)
(* inside [minAmount, maxAmount] through its 20 turns, returns an input of *)
(* the range with its profit, at least the profit of minAmount, and, when  *)
(* the interval has collapsed by the last turn, the greatest profit of any *)
(* integer input of the range.                                             *)
C35_SearchOptimum ==
    (calc.op = "FindOptimalInput" /\ calc.minAmount <= calc.maxAmount) =>
        /\ C35_SearchBounds
        /\ Collapsed(SearchAfter(SearchSteps)) =>
              \A x \in calc.minAmount..calc.maxAmount : calc.maxProfit >= ProfitAt(x)

----------------------------------------------------------------------------
(* GetPairPools (package arbitrage, builder.go) *)

NilPairPools == [nil |-> TRUE]

(* LoadPool: the pool of one DEX, or an error when FetchReserves fails.    *)
(* fetched is what getReserves answers for that pool: two uint112.         *)
LoadPool(poolAddress, dex, token0, token1, fetched) ==
    IF fetched.err THEN [nil |-> TRUE, err |-> TRUE]
    ELSE [nil |-> FALSE, err |-> FALSE,
          pool |-> [Address |-> poolAddress, Token0 |-> token0, Token1 |-> token1,
                    Reserve0 |-> fetched.reserve0, Reserve1 |-> fetched.reserve1,
                    DEX |-> dex]]

(* A GetPairPools that keeps the pools without liquidity. *)
GetPairPools_KeepsEmpty(tokenA, tokenADec, tokenB, tokenBDec, fetched) ==
    LET t == sortTokens(tokenA, tokenADec, tokenB, tokenBDec)
        pools[i \in 0..Len(KnownDEXes)] ==
            IF i = 0 THEN <<>>
            ELSE LET pairAddr == ComputePairAddress(KnownDEXes[i], t[1], t[3])
                     loaded == LoadPool(pairAddr, KnownDEXes[i], t[1], t[3], fetched[i])
                 IN  IF loaded.err THEN pools[i - 1]
                     ELSE Append(pools[i - 1], loaded.pool)
    IN  IF Len(pools[Len(KnownDEXes)]) < 2
        THEN [pair |-> NilPairPools, err |-> TRUE]
        ELSE [pair |-> [Token0 |-> t[1], Token1 |-> t[3], Token0Dec |-> t[2],
                        Token1Dec |-> t[4], Pools |-> pools[Len(KnownDEXes)]],
              err |-> FALSE]

GetPairPools(tokenA, tokenADec, tokenB, tokenBDec, fetched) ==
    LET t == sortTokens(tokenA, tokenADec, tokenB, tokenBDec)
        pools[i \in 0..Len(KnownDEXes)] ==
            IF i = 0 THEN <<>>
            ELSE LET pairAddr == ComputePairAddress(KnownDEXes[i], t[1], t[3])
                     loaded == LoadPool(pairAddr, KnownDEXes[i], t[1], t[3], fetched[i])
                 IN  IF loaded.err THEN pools[i - 1]
                     ELSE IF loaded.pool.Reserve0 = 0 \/ loaded.pool.Reserve1 = 0
                          THEN pools[i - 1]
                     ELSE Append(pools[i - 1], loaded.pool)
    IN  IF Len(pools[Len(KnownDEXes)]) < 2
        THEN [pair |-> NilPairPools, err |-> TRUE]
        ELSE [pair |-> [Token0 |-> t[1], Token1 |-> t[3], Token0Dec |-> t[2],
                        Token1Dec |-> t[4], Pools |-> pools[Len(KnownDEXes)]],
              err |-> FALSE]

(* What the chain answers for the pool of one DEX. *)
FetchedInputs ==
    {[err |-> TRUE, reserve0 |-> 0, reserve1 |-> 0]} \cup
    [err : {FALSE}, reserve0 : {0, 7}, reserve1 : {0, 7}]

(* The two tokens of a tracked pair, in either order. *)
TokenInputs ==
    UNION {{[tokenA |-> trackedPairs[k].tokenA, tokenADec |-> trackedPairs[k].tokenADec,
             tokenB |-> trackedPairs[k].tokenB, tokenBDec |-> trackedPairs[k].tokenBDec],
            [tokenA |-> trackedPairs[k].tokenB, tokenADec |-> trackedPairs[k].tokenBDec,
             tokenB |-> trackedPairs[k].tokenA, tokenBDec |-> trackedPairs[k].tokenADec]} :
           k \in {1, 3}}

GetPairPoolsCall ==
    /\ calc.op = "tokens"
    /\ LET r == GetPairPools(calc.tokens.tokenA, calc.tokens.tokenADec,
                             calc.tokens.tokenB, calc.tokens.tokenBDec, calc.fetched)
       IN  calc' = [calc EXCEPT !.op = "GetPairPools", !.pair = r.pair, !.err = r.err]
    /\ OthersUnchanged

InitPools ==
    /\ IdleOthers
    /\ calc \in [op : {"tokens"}, tokens : TokenInputs,
                 fetched : [1..Len(KnownDEXes) -> FetchedInputs],
                 pair : {NilPairPools}, err : {FALSE}]

NextPools == GetPairPoolsCall

SpecPools == InitPools /\ [][NextPools]_vars

(* The DEXes whose pool was fetched with both reserves non-zero. *)
LiveDEXes ==
    {i \in 1..Len(KnownDEXes) :
        ~calc.fetched[i].err /\ calc.fetched[i].reserve0 /= 0 /\ calc.fetched[i].reserve1 /= 0}

(* C22: GetPairPools returns a PairPools exactly when two DEXes or more    *)
(* yield a pool with both reserves non-zero, and an error otherwise; the   *)
(* PairPools has Token0 < Token1 with their decimals, its pools are those  *)
(* of the live DEXes in KnownDEXes order, each with that Token0/Token1 and *)
(* positive reserves, and the arguments in the other order give the same.  *)
C22_PairPools ==
    calc.op = "GetPairPools" =>
        LET t == calc.tokens
            p == calc.pair
        IN  /\ calc.err <=> Cardinality(LiveDEXes) < 2
            /\ calc.err => p = NilPairPools
            /\ ~calc.err =>
                /\ p.Token0 < p.Token1
                /\ {p.Token0, p.Token1} = {t.tokenA, t.tokenB}
                /\ p.Token0Dec = (IF p.Token0 = t.tokenA THEN t.tokenADec ELSE t.tokenBDec)
                /\ p.Token1Dec = (IF p.Token1 = t.tokenA THEN t.tokenADec ELSE t.tokenBDec)
                /\ Len(p.Pools) = Cardinality(LiveDEXes)
                /\ \A i \in 1..Len(p.Pools) :
                    /\ p.Pools[i].Token0 = p.Token0 /\ p.Pools[i].Token1 = p.Token1
                    /\ p.Pools[i].Reserve0 > 0 /\ p.Pools[i].Reserve1 > 0
                    /\ \E d \in LiveDEXes :
                        /\ p.Pools[i].DEX = KnownDEXes[d]
                        /\ p.Pools[i].Reserve0 = calc.fetched[d].reserve0
                        /\ p.Pools[i].Reserve1 = calc.fetched[d].reserve1
                        /\ Cardinality({e \in LiveDEXes : e < d}) = i - 1
            /\ GetPairPools(t.tokenB, t.tokenBDec, t.tokenA, t.tokenADec, calc.fetched)
                   = [pair |-> p, err |-> calc.err]

(* WETH and USDC given in that order, the uniswap fetch failing, the       *)
(* sushiswap and shibaswap pools live: a PairPools of those two, USDC      *)
(* first.                                                                  *)
C22_Witness ==
    /\ calc.op = "GetPairPools"
    /\ ~calc.err
    /\ calc.tokens.tokenA = TokenAddress.WETH /\ calc.tokens.tokenB = TokenAddress.USDC
    /\ calc.fetched[1].err
    /\ calc.pair.Token0 = TokenAddress.USDC /\ calc.pair.Token0Dec = 6
    /\ Len(calc.pair.Pools) = 2
    /\ calc.pair.Pools[1].DEX = "sushiswap" /\ calc.pair.Pools[2].DEX = "shibaswap"

----------------------------------------------------------------------------
(* The backtest runner (package backtest, Runner) *)

(* The largest uint64, at the width the model gives unsigned integers. *)
MaxUint64 == UintModulus - 1

NewBacktestReport(startBlock, endBlock) ==
    [StartBlock |-> startBlock, EndBlock |-> endBlock, Results |-> <<>>,
     TotalBlocks |-> 0, TotalPredicted |-> 0, TotalActual |-> 0,
     TruePositives |-> 0, FalsePositives |-> 0, FalseNegatives |-> 0]

(* CalculateMetrics.  Predicted and Actual are kept by their lengths. *)
RECURSIVE CalculateMetrics(_, _)
CalculateMetrics(r, i) ==
    IF i > Len(r.Results) THEN [r EXCEPT !.TotalBlocks = Len(r.Results)]
    ELSE LET result == r.Results[i]
             hasPredicted == result.Predicted > 0
             hasActual == result.Actual > 0
         IN  CalculateMetrics(
                 [r EXCEPT !.TotalPredicted = @ + result.Predicted,
                           !.TotalActual = @ + result.Actual,
                           !.TruePositives = IF hasPredicted /\ hasActual THEN @ + 1 ELSE @,
                           !.FalsePositives = IF hasPredicted /\ ~hasActual THEN @ + 1 ELSE @,
                           !.FalseNegatives = IF ~hasPredicted /\ hasActual THEN @ + 1 ELSE @],
                 i + 1)

(* ProcessBlock: an error when the fork of block blockNum - 1 cannot be    *)
(* made or FindActualArbitrages fails (a deadline that expired included),  *)
(* a BlockResult otherwise.  The fork of block 0 - 1 = MaxUint64 fails:    *)
(* the chain has no such block.                                            *)
ProcessBlock(blockNum, forkErr, actualErr, predicted, actual) ==
    IF forkErr \/ (blockNum - 1) % UintModulus = MaxUint64
    THEN [nil |-> TRUE, err |-> "fork state error"]
    ELSE IF actualErr THEN [nil |-> TRUE, err |-> "find actual arb error"]
    ELSE [nil |-> FALSE, err |-> "",
          result |-> [BlockNumber |-> blockNum, Predicted |-> predicted, Actual |-> actual]]

NewRun(startBlock, endBlock) ==
    [op |-> "RunBacktest", pc |-> "loop", blockNum |-> startBlock,
     calls |-> <<>>, report |-> NewBacktestReport(startBlock, endBlock), err |-> FALSE]

(* One turn of the loop of RunBacktest. *)
RunBacktestBlock ==
    /\ calc.op = "RunBacktest" /\ calc.pc = "loop"
    /\ calc.blockNum <= calc.report.EndBlock
    /\ Len(calc.calls) < MaxCalls
    /\ \E forkErr, actualErr \in BOOLEAN, predicted, actual \in 0..1 :
        LET r == ProcessBlock(calc.blockNum, forkErr, actualErr, predicted, actual)
        IN  calc' = [calc EXCEPT
                !.calls = Append(@, calc.blockNum),
                !.report.Results = IF r.err /= "" THEN @ ELSE Append(@, r.result),
                !.blockNum = (@ + 1) % UintModulus]
    /\ OthersUnchanged

(* The loop ends: the metrics are computed and the report returned. *)
RunBacktestReturn ==
    /\ calc.op = "RunBacktest" /\ calc.pc = "loop"
    /\ ~(calc.blockNum <= calc.report.EndBlock)
    /\ calc' = [calc EXCEPT !.pc = "done", !.report = CalculateMetrics(@, 1)]
    /\ OthersUnchanged

RunInputs == {0, 1, 2, MaxUint64 - 1, MaxUint64}

InitRunner ==
    /\ IdleOthers
    /\ calc \in {NewRun(s, e) : s \in RunInputs, e \in RunInputs}

NextRunner == RunBacktestBlock \/ RunBacktestReturn

SpecRunner == InitRunner /\ [][NextRunner]_vars

(* C23: ProcessBlock is called once for each block number from start to    *)
(* end in increasing order; Results holds exactly the blocks processed     *)
(* without error, in ascending order; RunBacktest returns no error and     *)
(* returns once the block end has been processed.                          *)
C23_EachBlockOnce ==
    calc.op = "RunBacktest" =>
        LET calls == calc.calls
            results == calc.report.Results
            start == calc.report.StartBlock
        IN  /\ \A i \in 1..Len(calls) :
                /\ calls[i] = start + i - 1
                /\ calls[i] <= calc.report.EndBlock
            /\ \A i, j \in 1..Len(results) :
                i < j => results[i].BlockNumber < results[j].BlockNumber
            /\ \A i \in 1..Len(results) : \E k \in 1..Len(calls) :
                calls[k] = results[i].BlockNumber
            /\ ~calc.err
            /\ calc.pc = "done" =>
                  {calls[i] : i \in 1..Len(calls)} = start..calc.report.EndBlock

----------------------------------------------------------------------------
(* The mempool database (package backtest, MempoolDB) *)

(* The value of a column that holds SQL NULL. *)
SqlNull == -1

(* A character of raw_tx that is no hexadecimal digit. *)
NotHex == 16

(* hexToBytes: strings.TrimPrefix(s, "0x") and hex.DecodeString.  A string *)
(* is its "0x" prefix and the values of its characters.                    *)
RECURSIVE HexPairs(_)
HexPairs(digits) ==
    IF digits = <<>> THEN <<>>
    ELSE <<16 * digits[1] + digits[2]>> \o HexPairs(SubSeq(digits, 3, Len(digits)))

hexToBytes(s) ==
    IF Len(s.digits) % 2 = 1 \/ \E i \in 1..Len(s.digits) : s.digits[i] = NotHex
    THEN [err |-> TRUE, bytes |-> <<>>]
    ELSE [err |-> FALSE, bytes |-> HexPairs(s.digits)]

(* rlp.DecodeBytes into types.Transaction: a typed transaction starts with *)
(* its type byte 1..3, a legacy one with an RLP list header (>= 0xc0).     *)
(* The payload after the first byte is not modelled.                       *)
DecodeTransaction(bytes) ==
    IF bytes /= <<>> /\ (bytes[1] \in 1..3 \/ bytes[1] >= 192)
    THEN [err |-> FALSE, tx |-> bytes]
    ELSE [err |-> TRUE, tx |-> <<>>]

(* SELECT included_block_timestamp ... WHERE included_block = ? AND        *)
(* included_block_timestamp IS NOT NULL LIMIT 1: any one of the matching   *)
(* rows, sql.ErrNoRows when there is none.                                 *)
BlockTimestamps(rows, blockNumber) ==
    {r.included_block_timestamp : r \in
        {x \in rows : x.included_block = blockNumber
                      /\ x.included_block_timestamp /= SqlNull}}

(* SELECT raw_tx ... WHERE timestamp < ? ORDER BY timestamp ASC: every     *)
(* ordering of the matching rows that is ascending by timestamp.           *)
RowsBefore_Inclusive(rows, blockTimestamp) ==
    LET sel == {r \in rows : r.timestamp <= blockTimestamp}
        n == Cardinality(sel)
    IN  {q \in [1..n -> sel] :
            /\ \A i, j \in 1..n : i /= j => q[i] /= q[j]
            /\ \A i \in 1..(n - 1) : q[i].timestamp <= q[i + 1].timestamp}

RowsBefore(rows, blockTimestamp) ==
    LET sel == {r \in rows : r.timestamp < blockTimestamp}
        n == Cardinality(sel)
    IN  {q \in [1..n -> sel] :
            /\ \A i, j \in 1..n : i /= j => q[i] /= q[j]
            /\ \A i \in 1..(n - 1) : q[i].timestamp <= q[i + 1].timestamp}

(* The loop over the rows: a row that does not decode is skipped. *)
RECURSIVE DecodeRows(_)
DecodeRows(q) ==
    IF q = <<>> THEN <<>>
    ELSE LET rawTx == hexToBytes(q[1].raw_tx)
             tx == DecodeTransaction(rawTx.bytes)
             rest == DecodeRows(Tail(q))
         IN  IF rawTx.err \/ tx.err THEN rest ELSE <<tx.tx>> \o rest

(* GetMempoolForBlock: the outcomes the two queries allow. *)
GetMempoolForBlock(rows, blockNumber) ==
    IF BlockTimestamps(rows, blockNumber) = {}
    THEN {[txs |-> <<>>, err |-> "block not found in mempool data"]}
    ELSE {[txs |-> DecodeRows(q), err |-> ""] :
            q \in UNION {RowsBefore(rows, t) : t \in BlockTimestamps(rows, blockNumber)}}

MempoolRow(hash, ts, block, blockTs, prefix, digits) ==
    [tx_hash |-> hash, timestamp |-> ts, included_block |-> block,
     included_block_timestamp |-> blockTs,
     raw_tx |-> [prefix |-> prefix, digits |-> digits]]

(* The rows the ingestion may have stored, one per transaction hash. *)
RowInputs ==
    { MempoolRow("a", 10, 1, 20, TRUE, <<15, 8>>),
      MempoolRow("b", 20, 1, 20, TRUE, <<0, 2>>),
      MempoolRow("c", 10, 2, 30, FALSE, <<12, 0>>),
      MempoolRow("d", 20, 2, 30, TRUE, <<15, NotHex>>),
      MempoolRow("e", 15, 2, 30, TRUE, <<0, 2, 1>>),
      MempoolRow("f", 15, 1, 20, TRUE, <<8, 0>>),
      MempoolRow("g", 25, 2, 30, TRUE, <<0, 1>>),
      MempoolRow("h", 12, 3, SqlNull, TRUE, <<15, 9>>) }

NewMempool(rows) == [op |-> "Mempool", rows |-> rows, called |-> FALSE]

(* The ingestion stores one more row (tx_hash is the primary key). *)
IngestRow ==
    /\ calc.op = "Mempool" /\ ~calc.called
    /\ Cardinality(calc.rows) < MaxRows
    /\ \E r \in RowInputs :
        /\ \A x \in calc.rows : x.tx_hash /= r.tx_hash
        /\ calc' = [calc EXCEPT !.rows = @ \cup {r}]
    /\ OthersUnchanged

GetMempoolForBlockCall ==
    /\ calc.op = "Mempool" /\ ~calc.called
    /\ \E blockNumber \in 1..4 : \E out \in GetMempoolForBlock(calc.rows, blockNumber) :
        calc' = [op |-> "Mempool", rows |-> calc.rows, called |-> TRUE,
                 blockNumber |-> blockNumber, out |-> out]
    /\ OthersUnchanged

InitMempool == IdleOthers /\ calc = NewMempool({})

NextMempool == IngestRow \/ GetMempoolForBlockCall

SpecMempool == InitMempool /\ [][NextMempool]_vars

Decodable(r) ==
    /\ ~hexToBytes(r.raw_tx).err
    /\ ~DecodeTransaction(hexToBytes(r.raw_tx).bytes).err

(* C24: GetMempoolForBlock(n) returns exactly the decodable stored         *)
(* transactions observed strictly before the included-block timestamp      *)
(* recorded for block n, in ascending order of observation; rows that do   *)
(* not decode are skipped; no stored row of block n gives an error.        *)
C24_MempoolBefore ==
    (calc.op = "Mempool" /\ calc.called) =>
        LET out == calc.out
            ofBlock == {r \in calc.rows : r.included_block = calc.blockNumber}
            kept == {r \in calc.rows : Decodable(r)}
        IN  /\ ofBlock = {} => out.err /= ""
            /\ out.err = "" =>
                \E b \in ofBlock :
                    /\ b.included_block_timestamp /= SqlNull
                    /\ LET before == {r \in kept : r.timestamp < b.included_block_timestamp}
                       IN  /\ Len(out.txs) = Cardinality(before)
                           /\ \E q \in [1..Len(out.txs) -> before] :
                                /\ \A i, j \in 1..Len(q) : i < j =>
                                      /\ q[i] /= q[j]
                                      /\ q[i].timestamp <= q[j].timestamp
                                /\ \A i \in 1..Len(q) :
                                      out.txs[i] = hexToBytes(q[i].raw_tx).bytes

C24_Witness ==
    /\ calc.op = "Mempool" /\ calc.called /\ calc.blockNumber = 1
    /\ calc.out.err = ""
    /\ Len(calc.out.txs) = 1
    /\ \E r \in calc.rows : r.timestamp = 20
    /\ \E r \in calc.rows : r.timestamp < 20 /\ ~Decodable(r)

----------------------------------------------------------------------------
(* BatchSetAccounts and BatchSetStorage, statement by statement: Begin,    *)
(* one Exec per row inside the transaction, Commit, and the deferred       *)
(* Rollback.  Readers use the committed tables; the transaction works on   *)
(* its own copy until Commit.                                              *)

BatchBlock == 7

AccountRows ==
    { [Address |-> "A", Balance |-> 5, Nonce |-> 1, Code |-> <<96>>],
      [Address |-> "A", Balance |-> 12, Nonce |-> 2, Code |-> <<>>],
      [Address |-> "B", Balance |-> 5, Nonce |-> 1, Code |-> <<>>] }

StorageRows ==
    { [Address |-> "A", Slot |-> "s", Value |-> 1],
      [Address |-> "A", Slot |-> "s", Value |-> 2],
      [Address |-> "A", Slot |-> "t", Value |-> 1] }

BatchInputs ==
    UNION {{[kind |-> "accounts", rows |-> q] : q \in [1..n -> AccountRows]}
           \cup {[kind |-> "storage", rows |-> q] : q \in [1..n -> StorageRows]}
           : n \in 1..MaxRows}

(* stmt.Exec of one row inside the transaction *)
BatchExecRow(d, kind, row) ==
    IF kind = "accounts"
    THEN CacheDB_BatchSetAccounts(d, BatchBlock, {row}, TRUE)
    ELSE CacheDB_BatchSetStorage(d, BatchBlock, {row}, TRUE)

(* The deferred tx.Rollback() on a transaction that was not committed      *)
(* keeps the committed tables and drops the copy of the transaction.       *)
BatchRollback_KeepsRows(c) == [c EXCEPT !.db = c.tx[1], !.tx = <<>>]

BatchRollback(c) == [c EXCEPT !.tx = <<>>]

IdleBatch(db) == [op |-> "Batch", pc |-> "idle", db |-> db, tx |-> <<>>]

(* c.db.Begin() and tx.Prepare() *)
BatchBegin ==
    /\ calc.op = "Batch" /\ calc.pc = "idle"
    /\ \E in \in BatchInputs, ok \in BOOLEAN :
        calc' = IF ok
                THEN [op |-> "Batch", pc |-> "exec", db |-> calc.db, tx |-> <<calc.db>>,
                      kind |-> in.kind, rows |-> in.rows, i |-> 1, before |-> calc.db]
                ELSE [op |-> "Batch", pc |-> "done", db |-> calc.db, tx |-> <<>>,
                      kind |-> in.kind, rows |-> in.rows, i |-> 1, before |-> calc.db,
                      err |-> TRUE]
    /\ OthersUnchanged

(* One turn of the loop.  On a failed Exec BatchSetAccounts returns nil    *)
(* and BatchSetStorage the error; the deferred Rollback runs in both.      *)
BatchExec ==
    /\ calc.op = "Batch" /\ calc.pc = "exec"
    /\ calc.i <= Len(calc.rows)
    /\ \E ok \in BOOLEAN :
        calc' = IF ok
                THEN [calc EXCEPT !.tx = <<BatchExecRow(@[1], calc.kind, calc.rows[calc.i])>>,
                                  !.i = @ + 1]
                ELSE [BatchRollback(calc) EXCEPT !.pc = "done"]
                        @@ [err |-> calc.kind = "storage"]
    /\ OthersUnchanged

(* return tx.Commit() *)
BatchCommit ==
    /\ calc.op = "Batch" /\ calc.pc = "exec"
    /\ calc.i > Len(calc.rows)
    /\ \E ok \in BOOLEAN :
        calc' = IF ok
                THEN [calc EXCEPT !.db = calc.tx[1], !.tx = <<>>, !.pc = "done"]
                        @@ [err |-> FALSE]
                ELSE [BatchRollback(calc) EXCEPT !.pc = "done"] @@ [err |-> TRUE]
    /\ OthersUnchanged

(* The caller goes on with the store as the batch left it. *)
BatchNext ==
    /\ calc.op = "Batch" /\ calc.pc = "done"
    /\ calc' = IdleBatch(calc.db)
    /\ OthersUnchanged

InitBatch == IdleOthers /\ calc = IdleBatch(NewCacheDB)

NextBatch == BatchBegin \/ BatchExec \/ BatchCommit \/ BatchNext

SpecBatch == InitBatch /\ [][NextBatch]_vars

RECURSIVE AllRows(_, _, _)
AllRows(d, kind, rows) ==
    IF rows = <<>> THEN d
    ELSE AllRows(BatchExecRow(d, kind, rows[1]), kind, Tail(rows))

(* C25: BatchSetAccounts and BatchSetStorage are atomic: after the call    *)
(* every row of the batch is in the persistent store or none is; rows      *)
(* written before a failure at row i are not visible to reads, during the  *)
(* call or after it.                                                       *)
C25_BatchAtomic ==
    (calc.op = "Batch" /\ calc.pc /= "idle") =>
        /\ calc.pc = "exec" => calc.db = calc.before
        /\ calc.pc = "done" =>
            \/ calc.db = calc.before
            \/ /\ calc.db = AllRows(calc.before, calc.kind, calc.rows)
               /\ ~calc.err

C25_Witness ==
    /\ calc.op = "Batch" /\ calc.pc = "done"
    /\ calc.kind = "accounts"
    /\ calc.i = 3 /\ Len(calc.rows) = 3
    /\ calc.db = calc.before
    /\ calc.db /= AllRows(calc.before, calc.kind, <<calc.rows[1]>>)
    /\ calc.before /= NewCacheDB

----------------------------------------------------------------------------
(* One transaction on a ForkedStateDB: the adapter with the state of its   *)
(* own, originalStorage, over a fork.                                      *)

TxAddrs == {"A", "B"}
TxWords == {0, 5}
TxCodes == {<<>>, <<1, 96>>}

NewForkedStateDB(f) ==
    [fork |-> f, logs |-> <<>>, refund |-> 0, accessList |-> EmptyMap,
     accessListAddr |-> EmptyMap, originalStorage |-> EmptyMap]

(* originalStorage[addr][hash] *)
HasOriginal(s, addr, hash) ==
    Has(s.originalStorage, addr) /\ Has(s.originalStorage[addr], hash)

ForkedStateDB_GetStateAndCommittedState(s, addr, hash, rpc) ==
    LET r == ForkedStateDB_GetState(s.fork, addr, hash, rpc)
        current == r.val
    IN  IF HasOriginal(s, addr, hash)
        THEN [s |-> [s EXCEPT !.fork = r.f], current |-> current,
              original |-> s.originalStorage[addr][hash]]
        ELSE [s |-> [s EXCEPT !.fork = r.f,
                              !.originalStorage =
                                  Put(@, addr, Put(IF Has(@, addr) THEN @[addr] ELSE EmptyMap,
                                                   hash, current))],
              current |-> current, original |-> current]

(* GetTransientState returns the zero hash; SetTransientState does nothing. *)
ForkedStateDB_GetTransientState(s, addr, key) == 0

ForkedStateDB_SetTransientState(s, addr, key, value) == s

ForkedStateDB_Exist(f, addr, rpc) ==
    LET code == ForkedStateDB_GetCode(f, addr, rpc)
        balance == ForkedStateDB_GetBalance(code.f, addr, rpc)
        nonce == ForkedStateDB_GetNonce(balance.f, addr, rpc)
    IN  [f |-> nonce.f, val |-> Len(code.val) > 0 \/ balance.val > 0 \/ nonce.val > 0]

(* A common.Hash is [word |-> n], the bytes it holds as a number, or       *)
(* [keccak256 |-> b], the Keccak-256 digest of the bytes b: the digest is  *)
(* not computed, and no digest is taken to equal the bytes it was made of. *)
Keccak256Hash(b) == [keccak256 |-> b]

ZeroHash == [word |-> 0]

(* common.BytesToHash(b): the last HashLength bytes, left-padded *)
RECURSIVE CodeBytesToHash(_)
CodeBytesToHash(b) ==
    IF b = <<>> THEN 0
    ELSE (256 * CodeBytesToHash(SubSeq(b, 1, Len(b) - 1)) + b[Len(b)]) % Pow(256, HashLength)

ForkedStateDB_GetCodeHash(f, addr, rpc) ==
    LET code == ForkedStateDB_GetCode(f, addr, rpc) IN
    IF Len(code.val) = 0
    THEN LET e == ForkedStateDB_Exist(code.f, addr, rpc) IN
         [f |-> e.f, val |-> IF e.val THEN Keccak256Hash(<<>>) ELSE ZeroHash]
    ELSE [f |-> code.f, val |-> [word |-> CodeBytesToHash(code.val)]]

(* calc during a transaction: the adapter s, the number of calls made, the *)
(* last call, and history: the fork when the adapter was created (start),  *)
(* the fork before the last call (prev), the transient writes asked for    *)
(* (tset), whether a remote call failed.                                   *)
NewTx(f) ==
    [op |-> "Tx", s |-> NewForkedStateDB(f), n |-> 0, call |-> [name |-> "none"],
     start |-> f, prev |-> f, tset |-> EmptyMap, failed |-> FALSE]

TxStep(s, call, rpc) ==
    [calc EXCEPT !.s = s, !.n = @ + 1, !.call = call, !.failed = @ \/ ~rpc,
                 !.prev = calc.s.fork]

TxSetState ==
    /\ calc.op = "Tx" /\ calc.n < MaxOps
    /\ \E addr \in Addrs, key \in Slots, value \in TxWords, rpc \in BOOLEAN :
        LET r == ForkedStateDB_SetState(calc.s.fork, addr, key, value, rpc)
        IN  calc' = TxStep([calc.s EXCEPT !.fork = r.f],
                           [name |-> "SetState", addr |-> addr, key |-> key, value |-> value],
                           rpc)
    /\ OthersUnchanged

TxGetStateAndCommittedState ==
    /\ calc.op = "Tx" /\ calc.n < MaxOps
    /\ \E addr \in Addrs, key \in Slots, rpc \in BOOLEAN :
        LET r == ForkedStateDB_GetStateAndCommittedState(calc.s, addr, key, rpc)
        IN  calc' = TxStep(r.s,
                           [name |-> "GetStateAndCommittedState", addr |-> addr, key |-> key,
                            current |-> r.current, original |-> r.original],
                           rpc)
    /\ OthersUnchanged

TxSetTransientState ==
    /\ calc.op = "Tx" /\ calc.n < MaxOps
    /\ \E addr \in Addrs, key \in Slots, value \in TxWords :
        calc' = [TxStep(ForkedStateDB_SetTransientState(calc.s, addr, key, value),
                        [name |-> "SetTransientState", addr |-> addr, key |-> key,
                         value |-> value],
                        TRUE)
                 EXCEPT !.tset = Put(@, <<addr, key>>, value)]
    /\ OthersUnchanged

TxGetTransientState ==
    /\ calc.op = "Tx" /\ calc.n < MaxOps
    /\ \E addr \in Addrs, key \in Slots :
        calc' = TxStep(calc.s,
                       [name |-> "GetTransientState", addr |-> addr, key |-> key,
                        value |-> ForkedStateDB_GetTransientState(calc.s, addr, key)],
                       TRUE)
    /\ OthersUnchanged

TxGetCodeHash ==
    /\ calc.op = "Tx" /\ calc.n < MaxOps
    /\ \E addr \in TxAddrs, rpc \in BOOLEAN :
        LET r == ForkedStateDB_GetCodeHash(calc.s.fork, addr, rpc)
            code == ForkedStateDB_GetCode(calc.s.fork, addr, rpc)
            exist == ForkedStateDB_Exist(calc.s.fork, addr, rpc)
        IN  calc' = TxStep([calc.s EXCEPT !.fork = r.f],
                           [name |-> "GetCodeHash", addr |-> addr, hash |-> r.val,
                            code |-> code.val, exist |-> exist.val],
                           rpc)
    /\ OthersUnchanged

TxSetCode ==
    /\ calc.op = "Tx" /\ calc.n < MaxOps
    /\ \E addr \in TxAddrs, code \in TxCodes, rpc \in BOOLEAN :
        LET r == ForkedStateDB_SetCode(calc.s.fork, addr, code, rpc)
        IN  calc' = TxStep([calc.s EXCEPT !.fork = r.f],
                           [name |-> "SetCode", addr |-> addr, code |-> code], rpc)
    /\ OthersUnchanged

TxCreateAccount ==
    /\ calc.op = "Tx" /\ calc.n < MaxOps
    /\ \E addr \in TxAddrs :
        calc' = TxStep([calc.s EXCEPT !.fork = ForkedStateDB_CreateAccount(@, addr)],
                       [name |-> "CreateAccount", addr |-> addr], TRUE)
    /\ OthersUnchanged

(* The next transaction gets an adapter of its own over the same fork. *)
TxNew ==
    /\ calc.op = "Tx" /\ calc.n < MaxOps
    /\ calc' = [NewTx(calc.s.fork) EXCEPT !.n = calc.n + 1]
    /\ OthersUnchanged

TxGetBalance ==
    /\ calc.op = "Tx" /\ calc.n < MaxOps
    /\ \E addr \in TxAddrs, rpc \in BOOLEAN :
        LET r == ForkedStateDB_GetBalance(calc.s.fork, addr, rpc)
        IN  calc' = TxStep([calc.s EXCEPT !.fork = r.f],
                           [name |-> "GetBalance", addr |-> addr, val |-> r.val, rpc |-> rpc],
                           rpc)
    /\ OthersUnchanged

TxGetNonce ==
    /\ calc.op = "Tx" /\ calc.n < MaxOps
    /\ \E addr \in TxAddrs, rpc \in BOOLEAN :
        LET r == ForkedStateDB_GetNonce(calc.s.fork, addr, rpc)
        IN  calc' = TxStep([calc.s EXCEPT !.fork = r.f],
                           [name |-> "GetNonce", addr |-> addr, val |-> r.val, rpc |-> rpc],
                           rpc)
    /\ OthersUnchanged

TxGetCode ==
    /\ calc.op = "Tx" /\ calc.n < MaxOps
    /\ \E addr \in TxAddrs, rpc \in BOOLEAN :
        LET r == ForkedStateDB_GetCode(calc.s.fork, addr, rpc)
        IN  calc' = TxStep([calc.s EXCEPT !.fork = r.f],
                           [name |-> "GetCode", addr |-> addr, val |-> r.val, rpc |-> rpc],
                           rpc)
    /\ OthersUnchanged

TxGetState ==
    /\ calc.op = "Tx" /\ calc.n < MaxOps
    /\ \E addr \in Addrs, key \in Slots, rpc \in BOOLEAN :
        LET r == ForkedStateDB_GetState(calc.s.fork, addr, key, rpc)
        IN  calc' = TxStep([calc.s EXCEPT !.fork = r.f],
                           [name |-> "GetState", addr |-> addr, key |-> key, val |-> r.val,
                            rpc |-> rpc],
                           rpc)
    /\ OthersUnchanged

InitTx == IdleOthers /\ calc = NewTx(fork)

NextTx ==
    \/ TxSetState \/ TxGetStateAndCommittedState
    \/ TxSetTransientState \/ TxGetTransientState
    \/ TxGetCodeHash \/ TxSetCode \/ TxCreateAccount \/ TxNew
    \/ TxGetBalance \/ TxGetNonce \/ TxGetCode \/ TxGetState

SpecTx == InitTx /\ [][NextTx]_vars

(* The value a slot had when the adapter was created. *)
ValueAtStart(addr, key) == ForkedStateDB_GetState(calc.start, addr, key, TRUE).val

(* C26: GetStateAndCommittedState returns as original the value the slot   *)
(* had when the adapter was created, whatever SetState calls came before   *)
(* the first committed read or after it.                                   *)
C26_OriginalAtStart ==
    (calc.op = "Tx" /\ calc.call.name = "GetStateAndCommittedState" /\ ~calc.failed) =>
        calc.call.original = ValueAtStart(calc.call.addr, calc.call.key)

(* C27: after SetTransientState(addr, key, v) GetTransientState(addr, key) *)
(* returns v for the rest of the transaction; on a fresh adapter it        *)
(* returns the zero word.                                                  *)
C27_TransientKept ==
    (calc.op = "Tx" /\ calc.call.name = "GetTransientState") =>
        calc.call.value =
            IF Has(calc.tset, <<calc.call.addr, calc.call.key>>)
            THEN calc.tset[<<calc.call.addr, calc.call.key>>] ELSE 0

(* C28: GetCodeHash returns the Keccak-256 hash of the code when the code  *)
(* is not empty, the hash of the empty code when the code is empty and the *)
(* account exists, and the zero hash when the account does not exist.      *)
C28_CodeHash ==
    (calc.op = "Tx" /\ calc.call.name = "GetCodeHash") =>
        calc.call.hash =
            IF calc.call.code /= <<>> THEN Keccak256Hash(calc.call.code)
            ELSE IF calc.call.exist THEN Keccak256Hash(<<>>)
            ELSE ZeroHash

(* The read of the fork behind the last call of the adapter, made on f. *)
ForkRead(f, call, rpc) ==
    IF call.name = "GetBalance" THEN StateFork_GetBalance(f, call.addr, rpc)
    ELSE IF call.name = "GetNonce" THEN StateFork_GetNonce(f, call.addr, rpc)
    ELSE IF call.name = "GetCode" THEN StateFork_GetCode(f, call.addr, rpc)
    ELSE StateFork_GetStorageAt(f, call.addr, call.key, rpc)

FailedRead ==
    /\ calc.op = "Tx"
    /\ calc.call.name \in {"GetBalance", "GetNonce", "GetCode", "GetState"}
    /\ ~calc.call.rpc
    /\ ForkRead(calc.prev, calc.call, FALSE).err

(* C30: a read that misses tier 1, the LRU and the persistent store and    *)
(* whose remote call fails is an error of the fork that changes nothing    *)
(* but the remote-call counter; the adapter returns the zero value, and a  *)
(* later read of the key calls the remote again.                           *)
C30_FailedReadNotCached ==
    FailedRead =>
        /\ calc.s.fork = [calc.prev EXCEPT !.stats.RPCCalls = @ + 1]
        /\ calc.call.val = IF calc.call.name = "GetCode" THEN <<>> ELSE 0
        /\ ForkRead(calc.s.fork, calc.call, TRUE).tier = "rpc"
        /\ ForkRead(calc.s.fork, calc.call, FALSE).err

C30_Witness ==
    /\ FailedRead
    /\ calc.call.name = "GetState"
    /\ calc.n = 2
    /\ calc.prev.stats.RPCCalls = 1
    /\ calc.prev.lruBalance /= EmptyMap

----------------------------------------------------------------------------
(* Two goroutines on one fork: GetBalance(addr) and SetBalance(addr, bal), *)
(* statement by statement, under f.mu (sync.RWMutex).                      *)

(* f.mu: the goroutine holding the write lock ("" for none) and the        *)
(* goroutines holding a read lock.                                         *)
NewRWMutex == [w |-> "", r |-> {}]

CanLock(mu) == mu.w = "" /\ mu.r = {}

CanRLock(mu) == mu.w = ""

(* The fork as earlier calls may have left it: the key in no tier, in the  *)
(* LRU, in the persistent store, or in tier 1.                             *)
RaceForks ==
    LET f == NewStateFork(7, NewCacheDB)
        bal == ChainBalance(7, "A")
    IN  { f,
          [f EXCEPT !.lruBalance = Put(@, balanceKey(7, "A"), bal)],
          [f EXCEPT !.db = CacheDB_SetBalance(@, 7, "A", bal)],
          StateFork_SetBalance(f, "A", bal) }

NewRace(f, bal) ==
    [op |-> "Race", f |-> f, mu |-> NewRWMutex, addr |-> "A",
     get |-> [pc |-> "RLock", bal |-> 0, err |-> FALSE, missed |-> FALSE],
     set |-> [pc |-> "Lock", bal |-> bal]]

(* f.mu.RLock() *)
GetRLock ==
    /\ calc.op = "Race" /\ calc.get.pc = "RLock"
    /\ CanRLock(calc.mu)
    /\ calc' = [calc EXCEPT !.mu.r = @ \cup {"get"}, !.get.pc = "check"]
    /\ OthersUnchanged

(* if bal, ok := f.cache.balances[addr]; ok { RUnlock; return }; RUnlock *)
GetCheck ==
    /\ calc.op = "Race" /\ calc.get.pc = "check"
    /\ calc' = IF Has(calc.f.cache.balances, calc.addr)
               THEN [calc EXCEPT !.mu.r = @ \ {"get"}, !.get.pc = "done",
                                 !.get.bal = calc.f.cache.balances[calc.addr]]
               ELSE [calc EXCEPT !.mu.r = @ \ {"get"}, !.get.pc = "lookup",
                                 !.get.missed = TRUE]
    /\ OthersUnchanged

(* The LRU, the persistent store, the remote call: no lock of f.mu held. *)
GetLookup ==
    /\ calc.op = "Race" /\ calc.get.pc = "lookup"
    /\ \E rpc \in BOOLEAN :
        LET f == calc.f
            key == balanceKey(f.blockNumber, calc.addr)
            row == CacheDB_GetBalance(f.db, f.blockNumber, calc.addr)
            bal == ChainBalance(f.blockNumber, calc.addr)
        IN  calc' =
              IF Has(f.lruBalance, key)
              THEN [calc EXCEPT !.f.stats.LRUHits = @ + 1,
                                !.get.bal = f.lruBalance[key], !.get.pc = "Lock"]
              ELSE IF row.ok
              THEN [calc EXCEPT !.f.stats.SQLiteHits = @ + 1,
                                !.f.lruBalance = Put(@, key, row.val),
                                !.get.bal = row.val, !.get.pc = "Lock"]
              ELSE IF ~rpc
              THEN [calc EXCEPT !.f.stats.RPCCalls = @ + 1,
                                !.get.err = TRUE, !.get.pc = "done"]
              ELSE [calc EXCEPT !.f.stats.RPCCalls = @ + 1,
                                !.f.lruBalance = Put(@, key, bal),
                                !.f.db = CacheDB_SetBalance(@, f.blockNumber, calc.addr, bal),
                                !.get.bal = bal, !.get.pc = "Lock"]
    /\ OthersUnchanged

(* f.mu.Lock() before the backfill of tier 1 *)
GetLock ==
    /\ calc.op = "Race" /\ calc.get.pc = "Lock"
    /\ CanLock(calc.mu)
    /\ calc' = [calc EXCEPT !.mu.w = "get", !.get.pc = "backfill"]
    /\ OthersUnchanged

(* f.cache.balances[addr] = bal; f.mu.Unlock() *)
GetBackfill ==
    /\ calc.op = "Race" /\ calc.get.pc = "backfill"
    /\ calc' = [calc EXCEPT !.f = StateFork_SetBalance(@, calc.addr, calc.get.bal),
                            !.mu.w = "", !.get.pc = "done"]
    /\ OthersUnchanged

(* SetBalance: f.mu.Lock() *)
SetLock ==
    /\ calc.op = "Race" /\ calc.set.pc = "Lock"
    /\ CanLock(calc.mu)
    /\ calc' = [calc EXCEPT !.mu.w = "set", !.set.pc = "write"]
    /\ OthersUnchanged

(* SetBalance: the write and the deferred f.mu.Unlock() *)
SetWrite ==
    /\ calc.op = "Race" /\ calc.set.pc = "write"
    /\ calc' = [calc EXCEPT !.f = StateFork_SetBalance(@, calc.addr, calc.set.bal),
                            !.mu.w = "", !.set.pc = "done"]
    /\ OthersUnchanged

InitRace ==
    /\ IdleOthers
    /\ calc \in {NewRace(f, bal) : f \in RaceForks, bal \in BalanceWrites}

NextRace ==
    GetRLock \/ GetCheck \/ GetLookup \/ GetLock \/ GetBackfill \/ SetLock \/ SetWrite

SpecRace == InitRace /\ [][NextRace]_vars

(* C29: a write is never lost to a concurrent read: when SetBalance(K, v)  *)
(* ran concurrently with a GetBalance(K) that missed tier 1 and both have  *)
(* returned, tier 1 maps K to v, for every interleaving.                   *)
C29_WriteNotLost ==
    (calc.op = "Race" /\ calc.get.pc = "done" /\ calc.set.pc = "done" /\ calc.get.missed) =>
        /\ Has(calc.f.cache.balances, calc.addr)
        /\ calc.f.cache.balances[calc.addr] = calc.set.bal

----------------------------------------------------------------------------
(* ForkedStateDB: logs, refund counter, access list, Prepare *)

ForkedStateDB_AddLog_Prepends(s, log) == [s EXCEPT !.logs = <<log>> \o @]

ForkedStateDB_AddLog(s, log) == [s EXCEPT !.logs = Append(@, log)]

ForkedStateDB_Logs(s) == s.logs

(* s.refund is a uint64 *)
ForkedStateDB_AddRefund(s, gas) == [s EXCEPT !.refund = (@ + gas) % UintModulus]

ForkedStateDB_SubRefund(s, gas) ==
    [s EXCEPT !.refund = IF gas > @ THEN 0 ELSE @ - gas]

ForkedStateDB_AddAddressToAccessList(s, addr) ==
    [s EXCEPT !.accessListAddr = Put(@, addr, TRUE)]

ForkedStateDB_AddSlotToAccessList_SlotOnly(s, addr, slot) ==
    [s EXCEPT !.accessList = Put(@, addr, Put(IF Has(@, addr) THEN @[addr] ELSE EmptyMap,
                                              slot, TRUE))]

ForkedStateDB_AddSlotToAccessList(s, addr, slot) ==
    [s EXCEPT !.accessListAddr = Put(@, addr, TRUE),
              !.accessList = Put(@, addr, Put(IF Has(@, addr) THEN @[addr] ELSE EmptyMap,
                                              slot, TRUE))]

(* Reading a Go map of bool at a missing key gives false. *)
ForkedStateDB_AddressInAccessList(s, addr) ==
    Has(s.accessListAddr, addr) /\ s.accessListAddr[addr]

ForkedStateDB_SlotInAccessList(s, addr, slot) ==
    LET addrOk == ForkedStateDB_AddressInAccessList(s, addr) IN
    IF ~addrOk THEN <<FALSE, FALSE>>
    ELSE IF ~Has(s.accessList, addr) THEN <<TRUE, FALSE>>
    ELSE <<TRUE, Has(s.accessList[addr], slot) /\ s.accessList[addr][slot]>>

RECURSIVE AddSlots(_, _, _)
AddSlots(s, addr, keys) ==
    IF keys = <<>> THEN s
    ELSE AddSlots(ForkedStateDB_AddSlotToAccessList(s, addr, keys[1]), addr, Tail(keys))

RECURSIVE AddAddresses(_, _)
AddAddresses(s, addrs) ==
    IF addrs = <<>> THEN s
    ELSE AddAddresses(ForkedStateDB_AddAddressToAccessList(s, addrs[1]), Tail(addrs))

RECURSIVE AddAccesses(_, _)
AddAccesses(s, txAccesses) ==
    IF txAccesses = <<>> THEN s
    ELSE LET el == txAccesses[1]
         IN  AddAccesses(AddSlots(ForkedStateDB_AddAddressToAccessList(s, el.Address),
                                  el.Address, el.StorageKeys),
                         Tail(txAccesses))

(* Prepare.  dest is <<>> (nil) or <<addr>>. *)
ForkedStateDB_Prepare(s, sender, coinbase, dest, precompiles, txAccesses) ==
    LET s1 == ForkedStateDB_AddAddressToAccessList(s, sender)
        s2 == IF dest /= <<>> THEN ForkedStateDB_AddAddressToAccessList(s1, dest[1]) ELSE s1
        s3 == ForkedStateDB_AddAddressToAccessList(s2, coinbase)
    IN  AddAccesses(AddAddresses(s3, precompiles), txAccesses)

(* The adapter's Snapshot and RevertToSnapshot act on the fork alone. *)
StateDB_Snapshot(s) ==
    LET r == ForkedStateDB_Snapshot(s.fork) IN [s |-> [s EXCEPT !.fork = r.f], val |-> r.val]

StateDB_RevertToSnapshot_DropsLogs(s, id) ==
    [s EXCEPT !.fork = ForkedStateDB_RevertToSnapshot(@, id), !.logs = <<>>]

StateDB_RevertToSnapshot(s, id) ==
    [s EXCEPT !.fork = ForkedStateDB_RevertToSnapshot(@, id)]

----------------------------------------------------------------------------
(* ExecuteBundle and ExecuteTransaction with the adapter of each           *)
(* transaction: the interpreter's calls on the adapter are steps between   *)
(* the start of ApplyMessage and its return.                               *)

(* The message of a transaction, as Prepare sees it. *)
MsgSender == "S"
MsgCoinbase == "C"
MsgDest == <<"A">>
MsgPrecompiles == <<"P">>
MsgAccessList == <<[Address |-> "A", StorageKeys |-> <<"s">>]>>

(* SimulationResult and TxResult with their Logs. *)
SimResultLogs(success, logs) == [Success |-> success, Logs |-> logs]

TxResultLogs(hash, sim) == [TxHash |-> hash, Success |-> sim.Success, Logs |-> sim.Logs]

(* calc while bundles run on one fork: the adapter s of the transaction    *)
(* being run (its fork is the executor's fork), the bundle, the position,  *)
(* the result so far.  History: started counts the transactions begun on   *)
(* the fork, ops the calls of the interpreter, emitted[t] the logs the     *)
(* t-th transaction appended, last the adapter before the last call.       *)
NewLogRun(f) ==
    [op |-> "Logs", pc |-> "idle", s |-> NewForkedStateDB(f), len |-> 0, i |-> 0,
     snapID |-> 0, snap |-> 0, handles |-> {},
     result |-> [nil |-> TRUE, Success |-> FALSE, Transactions |-> <<>>],
     started |-> 0, ops |-> 0, emitted |-> <<>>,
     last |-> [name |-> "none"]]

(* ExecuteBundle up to the loop *)
LogsBundleStart ==
    /\ calc.op = "Logs" /\ calc.pc = "idle"
    /\ calc.started < MaxBundle
    /\ \E len \in 0..(MaxBundle - calc.started) :
        calc' = IF len = 0
                THEN [calc EXCEPT !.result = [nil |-> TRUE, Success |-> FALSE,
                                              Transactions |-> <<>>],
                                  !.len = 0, !.last = [name |-> "ExecuteBundle"]]
                ELSE LET r == StateFork_Snapshot(calc.s.fork) IN
                     [calc EXCEPT !.s.fork = r.f, !.snapID = r.val, !.len = len, !.i = 0,
                                  !.pc = "loop",
                                  !.result = [nil |-> FALSE, Success |-> TRUE,
                                              Transactions |-> <<>>],
                                  !.last = [name |-> "ExecuteBundle"]]
    /\ OthersUnchanged

(* The bundle ends on transaction hash with the simulation result sim. *)
LogsAppend(c, hash, sim) ==
    LET txs == Append(c.result.Transactions, TxResultLogs(hash, sim)) IN
    IF ~sim.Success
    THEN [c EXCEPT !.result = [nil |-> FALSE, Success |-> FALSE, Transactions |-> txs],
                   !.s.fork = StateFork_RevertToSnapshot(@, c.snapID).f,
                   !.pc = "idle"]
    ELSE [c EXCEPT !.result.Transactions = txs,
                   !.i = @ + 1,
                   !.pc = IF c.i + 1 = c.len THEN "idle" ELSE "loop"]

(* ExecuteTransaction up to the interpreter: the adapter is made, the      *)
(* sender recovered, the snapshot taken, the intrinsic gas computed;       *)
(* ApplyMessage checks the message, returning an error before anything is  *)
(* run, and calls Prepare.                                                 *)
LogsTxBegin ==
    /\ calc.op = "Logs" /\ calc.pc = "loop"
    /\ \E outcome \in {"sender", "intrinsic", "check", "run"} :
        LET t == calc.started + 1
            stateDB == NewForkedStateDB(calc.s.fork)
            snapped == StateDB_Snapshot(stateDB)
            c == [calc EXCEPT !.started = t, !.emitted = Append(@, <<>>),
                              !.handles = {},
                              !.last = [name |-> "ExecuteTransaction"]]
        IN  calc' =
              CASE outcome = "sender" ->
                     [c EXCEPT !.s = [stateDB EXCEPT !.fork =
                                        StateFork_RevertToSnapshot(@, calc.snapID).f],
                               !.result = [nil |-> TRUE, Success |-> FALSE,
                                           Transactions |-> <<>>],
                               !.pc = "idle"]
                [] outcome = "intrinsic" ->
                     [c EXCEPT !.s = [snapped.s EXCEPT !.fork =
                                        StateFork_RevertToSnapshot(@, calc.snapID).f],
                               !.result = [nil |-> TRUE, Success |-> FALSE,
                                           Transactions |-> <<>>],
                               !.pc = "idle"]
                [] outcome = "check" ->
                     LogsAppend([c EXCEPT !.s = StateDB_RevertToSnapshot(snapped.s, snapped.val)],
                                t, SimResultLogs(FALSE, <<>>))
                [] OTHER ->
                     [c EXCEPT !.s = ForkedStateDB_Prepare(snapped.s, MsgSender, MsgCoinbase,
                                                           MsgDest, MsgPrecompiles,
                                                           MsgAccessList),
                               !.snap = snapped.val, !.handles = {snapped.val},
                               !.pc = "evm"]
    /\ OthersUnchanged

(* One call of the interpreter on the adapter. *)
LogsEvmStep(s, name) ==
    [calc EXCEPT !.s = s, !.ops = @ + 1,
                 !.last = [name |-> name, logs |-> calc.s.logs, refund |-> calc.s.refund,
                           accessList |-> calc.s.accessList,
                           accessListAddr |-> calc.s.accessListAddr,
                           originalStorage |-> calc.s.originalStorage,
                           fork |-> calc.s.fork]]

EvmCanStep == calc.op = "Logs" /\ calc.pc = "evm" /\ calc.ops < MaxOps

LogsAddLog ==
    /\ EvmCanStep
    /\ LET log == [tx |-> calc.started, index |-> Len(calc.emitted[calc.started]) + 1]
       IN  calc' = [LogsEvmStep(ForkedStateDB_AddLog(calc.s, log), "AddLog")
                    EXCEPT !.emitted[calc.started] = Append(@, log)]
    /\ OthersUnchanged

LogsSetState ==
    /\ EvmCanStep
    /\ LET r == ForkedStateDB_SetState(calc.s.fork, "A", "s", 5, TRUE)
       IN  calc' = LogsEvmStep([calc.s EXCEPT !.fork = r.f], "SetState")
    /\ OthersUnchanged

LogsGetCommitted ==
    /\ EvmCanStep
    /\ LET r == ForkedStateDB_GetStateAndCommittedState(calc.s, "A", "s", TRUE)
       IN  calc' = LogsEvmStep(r.s, "GetStateAndCommittedState")
    /\ OthersUnchanged

LogsSnapshot ==
    /\ EvmCanStep
    /\ LET r == StateDB_Snapshot(calc.s)
       IN  calc' = [LogsEvmStep(r.s, "Snapshot") EXCEPT !.handles = @ \cup {r.val}]
    /\ OthersUnchanged

LogsRevert ==
    /\ EvmCanStep
    /\ \E id \in calc.handles :
        calc' = [LogsEvmStep(StateDB_RevertToSnapshot(calc.s, id), "RevertToSnapshot")
                 EXCEPT !.last = @ @@ [id |-> id]]
    /\ OthersUnchanged

LogsRefund ==
    /\ EvmCanStep
    /\ \E add \in BOOLEAN :
        calc' = IF add THEN LogsEvmStep(ForkedStateDB_AddRefund(calc.s, 2), "AddRefund")
                ELSE LogsEvmStep(ForkedStateDB_SubRefund(calc.s, 3), "SubRefund")
    /\ OthersUnchanged

LogsAddSlot ==
    /\ EvmCanStep
    /\ calc' = LogsEvmStep(ForkedStateDB_AddSlotToAccessList(calc.s, "B", "s"),
                           "AddSlotToAccessList")
    /\ OthersUnchanged

(* ExecuteTransaction from the return of ApplyMessage *)
LogsTxEnd ==
    /\ calc.op = "Logs" /\ calc.pc = "evm"
    /\ \E failed \in BOOLEAN :
        LET simResult == SimResultLogs(~failed, calc.s.logs)
            s == IF failed THEN StateDB_RevertToSnapshot(calc.s, calc.snap) ELSE calc.s
            c == [calc EXCEPT !.s = s,
                              !.last = [name |-> "return", logs |-> calc.s.logs,
                                        refund |-> calc.s.refund,
                                        accessList |-> calc.s.accessList,
                                        accessListAddr |-> calc.s.accessListAddr,
                                        originalStorage |-> calc.s.originalStorage,
                                        fork |-> calc.s.fork, failed |-> failed]]
        IN  calc' = LogsAppend(c, calc.started, simResult)
    /\ OthersUnchanged

InitLogs == IdleOthers /\ calc = NewLogRun(fork)

NextLogs ==
    \/ LogsBundleStart \/ LogsTxBegin \/ LogsTxEnd
    \/ LogsAddLog \/ LogsSetState \/ LogsGetCommitted \/ LogsSnapshot \/ LogsRevert
    \/ LogsRefund \/ LogsAddSlot

SpecLogs == InitLogs /\ [][NextLogs]_vars

(* C31: in a bundle the Logs of the result of transaction i are the logs   *)
(* appended during transaction i, in emission order, and no log of another *)
(* transaction of the bundle or of an earlier execution on the fork; the   *)
(* adapter of a transaction starts with an empty log buffer.               *)
C31_LogsPerTransaction ==
    calc.op = "Logs" =>
        /\ \A k \in 1..Len(calc.result.Transactions) :
            LET r == calc.result.Transactions[k] IN
            /\ r.Logs = calc.emitted[r.TxHash]
            /\ \A j \in 1..Len(r.Logs) : r.Logs[j].tx = r.TxHash
        /\ calc.last.name = "ExecuteTransaction" => calc.s.logs = <<>>
        /\ calc.pc = "evm" => calc.s.logs = calc.emitted[calc.started]

C31_Witness ==
    /\ calc.op = "Logs" /\ calc.pc = "idle"
    /\ Len(calc.result.Transactions) = 2
    /\ Len(calc.result.Transactions[1].Logs) = 1
    /\ Len(calc.result.Transactions[2].Logs) = 2

(* C38: RevertToSnapshot of the adapter restores tier 1 of the fork only:  *)
(* the log buffer, the refund counter, the access list and the original    *)
(* storage are as before the revert, so a log appended after the snapshot  *)
(* is still in Logs() and in the Logs of the SimulationResult, also of one *)
(* with Success = false.                                                   *)
C38_RevertKeepsAdapter ==
    (calc.op = "Logs" /\ calc.last.name \in {"RevertToSnapshot", "return"}) =>
        /\ calc.s.logs = calc.last.logs
        /\ calc.s.refund = calc.last.refund
        /\ calc.s.accessList = calc.last.accessList
        /\ calc.s.accessListAddr = calc.last.accessListAddr
        /\ calc.s.originalStorage = calc.last.originalStorage
        /\ calc.last.name = "RevertToSnapshot" =>
              /\ calc.last.id < Len(calc.last.fork.snapshots) =>
                    calc.s.fork.cache = calc.last.fork.snapshots[calc.last.id + 1]
              /\ calc.s.fork.db = calc.last.fork.db
              /\ calc.s.fork.lruStorage = calc.last.fork.lruStorage
              /\ ForkedStateDB_Logs(calc.s) = calc.emitted[calc.started]
        /\ calc.last.name = "return" =>
              LET r == calc.result.Transactions[Len(calc.result.Transactions)] IN
              /\ r.Logs = calc.last.logs
              /\ r.Success = ~calc.last.failed

C38_Witness ==
    /\ calc.op = "Logs" /\ calc.last.name = "return" /\ calc.last.failed
    /\ calc.result.Transactions[1].Logs /= <<>>
    /\ ~calc.result.Transactions[1].Success
    /\ calc.last.refund > 0
    /\ calc.last.fork.cache.storage /= EmptyMap
    /\ calc.s.fork.cache.storage = EmptyMap

----------------------------------------------------------------------------
(* Accounts through the adapter: balances, creation, existence *)

ForkedStateDB_CreateContract(f, addr) == ForkedStateDB_CreateAccount(f, addr)

ForkedStateDB_Empty(f, addr, rpc) ==
    LET code == ForkedStateDB_GetCode(f, addr, rpc)
        balance == ForkedStateDB_GetBalance(code.f, addr, rpc)
        nonce == ForkedStateDB_GetNonce(balance.f, addr, rpc)
    IN  [f |-> nonce.f, val |-> Len(code.val) = 0 /\ balance.val = 0 /\ nonce.val = 0]

(* Amounts added and subtracted: one, and the largest uint256. *)
AcctAmounts == {1, UintModulus - 1}

NewAcct(f) == [op |-> "Acct", f |-> f, n |-> 0, call |-> [name |-> "none"], prev |-> f]

AcctStep(f, call) == [calc EXCEPT !.f = f, !.n = @ + 1, !.call = call, !.prev = calc.f]

AcctCanStep == calc.op = "Acct" /\ calc.n < MaxOps

AcctAddBalance ==
    /\ AcctCanStep
    /\ \E addr \in TxAddrs, amount \in AcctAmounts, rpc \in BOOLEAN :
        LET r == ForkedStateDB_AddBalance(calc.f, addr, amount, rpc)
        IN  calc' = AcctStep(r.f, [name |-> "AddBalance", addr |-> addr, amount |-> amount,
                                   rpc |-> rpc, val |-> r.val])
    /\ OthersUnchanged

AcctSubBalance ==
    /\ AcctCanStep
    /\ \E addr \in TxAddrs, amount \in AcctAmounts, rpc \in BOOLEAN :
        LET r == ForkedStateDB_SubBalance(calc.f, addr, amount, rpc)
        IN  calc' = AcctStep(r.f, [name |-> "SubBalance", addr |-> addr, amount |-> amount,
                                   rpc |-> rpc, val |-> r.val])
    /\ OthersUnchanged

AcctCreate ==
    /\ AcctCanStep
    /\ \E addr \in TxAddrs, contract \in BOOLEAN :
        calc' = AcctStep(IF contract THEN ForkedStateDB_CreateContract(calc.f, addr)
                         ELSE ForkedStateDB_CreateAccount(calc.f, addr),
                         [name |-> "CreateAccount", addr |-> addr])
    /\ OthersUnchanged

AcctSetNonce ==
    /\ AcctCanStep
    /\ \E addr \in TxAddrs :
        calc' = AcctStep(ForkedStateDB_SetNonce(calc.f, addr, 3),
                         [name |-> "SetNonce", addr |-> addr])
    /\ OthersUnchanged

AcctSetCode ==
    /\ AcctCanStep
    /\ \E addr \in TxAddrs, code \in TxCodes, rpc \in BOOLEAN :
        calc' = AcctStep(ForkedStateDB_SetCode(calc.f, addr, code, rpc).f,
                         [name |-> "SetCode", addr |-> addr])
    /\ OthersUnchanged

AcctSetState ==
    /\ AcctCanStep
    /\ \E rpc \in BOOLEAN :
        calc' = AcctStep(ForkedStateDB_SetState(calc.f, "A", "s", 5, rpc).f,
                         [name |-> "SetState", addr |-> "A"])
    /\ OthersUnchanged

AcctExist ==
    /\ AcctCanStep
    /\ \E addr \in TxAddrs, rpc \in BOOLEAN :
        LET r == ForkedStateDB_Exist(calc.f, addr, rpc)
        IN  calc' = AcctStep(r.f, [name |-> "Exist", addr |-> addr, rpc |-> rpc,
                                   val |-> r.val])
    /\ OthersUnchanged

InitAcct == IdleOthers /\ calc = NewAcct(fork)

NextAcct ==
    \/ AcctAddBalance \/ AcctSubBalance \/ AcctCreate \/ AcctSetNonce
    \/ AcctSetCode \/ AcctSetState \/ AcctExist

SpecAcct == InitAcct /\ [][NextAcct]_vars

(* The balance the adapter reads for addr on f: tier 1, else the value of  *)
(* the block when a lower tier or the remote answers, else zero.           *)
PriorBalance(f, addr, rpc) ==
    IF Has(f.cache.balances, addr) THEN f.cache.balances[addr]
    ELSE IF \/ Has(f.lruBalance, balanceKey(f.blockNumber, addr))
            \/ CacheDB_GetBalance(f.db, f.blockNumber, addr).ok
            \/ rpc
         THEN ChainBalance(f.blockNumber, addr)
         ELSE 0

(* Tier 1 of f but for the balance of addr. *)
OtherTier1(f, addr) ==
    [f.cache EXCEPT !.balances = [a \in DOMAIN @ \ {addr} |-> @[a]]]

(* C32: AddBalance and SubBalance return the balance the address had       *)
(* before the call and set it to prior + a, prior - a modulo 2^256         *)
(* (SubBalance with a > prior wraps around); the balances of the other     *)
(* addresses and all nonces, code and storage are unchanged.               *)
C32_BalanceArithmetic ==
    (calc.op = "Acct" /\ calc.call.name \in {"AddBalance", "SubBalance"}) =>
        LET c == calc.call
            prior == PriorBalance(calc.prev, c.addr, c.rpc)
            sum == IF c.name = "AddBalance" THEN prior + c.amount
                   ELSE prior - c.amount + UintModulus
        IN  /\ c.val = prior
            /\ Has(calc.f.cache.balances, c.addr)
            /\ calc.f.cache.balances[c.addr] =
                   IF sum >= UintModulus THEN sum - UintModulus ELSE sum
            /\ calc.f.cache.balances[c.addr] \in 0..(UintModulus - 1)
            /\ OtherTier1(calc.f, c.addr) = OtherTier1(calc.prev, c.addr)

C32_Witness ==
    /\ calc.op = "Acct" /\ calc.call.name = "SubBalance"
    /\ calc.call.amount > calc.call.val
    /\ calc.call.val > 0
    /\ calc.f.cache.balances[calc.call.addr] = calc.call.val + 1
    /\ calc.f.cache.nonces /= EmptyMap

----------------------------------------------------------------------------
(* The access list of one transaction *)

AccessAddrs == {"A", "B"}
AccessSlots == {"s", "t"}

(* Arguments of Prepare: the destination is nil for a creation. *)
PrepareInputs ==
    [sender : {"S"}, coinbase : {"C"}, dest : {<<>>, <<"A">>},
     precompiles : {<<>>, <<"P", "Q">>},
     txAccesses : {<<>>,
                   <<[Address |-> "A", StorageKeys |-> <<"s">>]>>,
                   <<[Address |-> "B", StorageKeys |-> <<>>],
                     [Address |-> "A", StorageKeys |-> <<"s", "t">>]>>}]

NewAccess(f) ==
    [op |-> "Access", s |-> NewForkedStateDB(f), n |-> 0, handles |-> {},
     call |-> [name |-> "none"], prev |-> NewForkedStateDB(f)]

AccessStep(s, call) == [calc EXCEPT !.s = s, !.n = @ + 1, !.call = call, !.prev = calc.s]

AccessCanStep == calc.op = "Access" /\ calc.n < MaxOps

AccessAddAddress ==
    /\ AccessCanStep
    /\ \E addr \in AccessAddrs :
        calc' = AccessStep(ForkedStateDB_AddAddressToAccessList(calc.s, addr),
                           [name |-> "AddAddressToAccessList", addr |-> addr])
    /\ OthersUnchanged

AccessAddSlot ==
    /\ AccessCanStep
    /\ \E addr \in AccessAddrs, slot \in AccessSlots :
        calc' = AccessStep(ForkedStateDB_AddSlotToAccessList(calc.s, addr, slot),
                           [name |-> "AddSlotToAccessList", addr |-> addr, slot |-> slot])
    /\ OthersUnchanged

AccessPrepare ==
    /\ AccessCanStep
    /\ \E in \in PrepareInputs :
        calc' = AccessStep(ForkedStateDB_Prepare(calc.s, in.sender, in.coinbase, in.dest,
                                                 in.precompiles, in.txAccesses),
                           [name |-> "Prepare", in |-> in])
    /\ OthersUnchanged

AccessSetState ==
    /\ AccessCanStep
    /\ calc' = AccessStep([calc.s EXCEPT !.fork =
                              ForkedStateDB_SetState(@, "A", "s", 5, TRUE).f],
                          [name |-> "SetState"])
    /\ OthersUnchanged

AccessSnapshot ==
    /\ AccessCanStep
    /\ LET r == StateDB_Snapshot(calc.s)
       IN  calc' = [AccessStep(r.s, [name |-> "Snapshot"]) EXCEPT !.handles = @ \cup {r.val}]
    /\ OthersUnchanged

AccessRevert ==
    /\ AccessCanStep
    /\ \E id \in calc.handles :
        calc' = AccessStep(StateDB_RevertToSnapshot(calc.s, id),
                           [name |-> "RevertToSnapshot", id |-> id])
    /\ OthersUnchanged

InitAccess == IdleOthers /\ calc = NewAccess(fork)

NextAccess ==
    \/ AccessAddAddress \/ AccessAddSlot \/ AccessPrepare \/ AccessSetState
    \/ AccessSnapshot \/ AccessRevert

SpecAccess == InitAccess /\ [][NextAccess]_vars

AllAddrs == AccessAddrs \cup {"S", "C", "P", "Q"}

RECURSIVE SeqSet(_)
SeqSet(q) == IF q = <<>> THEN {} ELSE {q[1]} \cup SeqSet(Tail(q))

(* C33: SlotInAccessList never returns (false, true); after                *)
(* AddSlotToAccessList the address and the slot are members; after Prepare *)
(* the sender, the coinbase, the destination when there is one, the        *)
(* precompiles and every address and (address, key) of the transaction's   *)
(* access list are members; no operation, RevertToSnapshot included,       *)
(* removes a member.                                                       *)
C33_AccessList ==
    calc.op = "Access" =>
        LET s == calc.s
            c == calc.call
            InAddr(a) == ForkedStateDB_AddressInAccessList(s, a)
            InSlot(a, k) == ForkedStateDB_SlotInAccessList(s, a, k)
        IN  /\ \A a \in AllAddrs, k \in AccessSlots : InSlot(a, k) /= <<FALSE, TRUE>>
            /\ c.name = "AddSlotToAccessList" =>
                  InAddr(c.addr) /\ InSlot(c.addr, c.slot) = <<TRUE, TRUE>>
            /\ c.name = "Prepare" =>
                  /\ InAddr(c.in.sender) /\ InAddr(c.in.coinbase)
                  /\ \A a \in SeqSet(c.in.dest) \cup SeqSet(c.in.precompiles) : InAddr(a)
                  /\ \A el \in SeqSet(c.in.txAccesses) :
                        /\ InAddr(el.Address)
                        /\ \A k \in SeqSet(el.StorageKeys) :
                              InSlot(el.Address, k) = <<TRUE, TRUE>>
            /\ \A a \in AllAddrs :
                  /\ ForkedStateDB_AddressInAccessList(calc.prev, a) => InAddr(a)
                  /\ \A k \in AccessSlots :
                        ForkedStateDB_SlotInAccessList(calc.prev, a, k)[2] => InSlot(a, k)[2]

C33_Witness ==
    /\ calc.op = "Access" /\ calc.call.name = "RevertToSnapshot"
    /\ ForkedStateDB_SlotInAccessList(calc.s, "A", "t") = <<TRUE, TRUE>>
    /\ ForkedStateDB_SlotInAccessList(calc.s, "B", "s") = <<TRUE, FALSE>>
    /\ ForkedStateDB_AddressInAccessList(calc.s, "P")
    /\ calc.n = 3

----------------------------------------------------------------------------
(* swapDirection on single logs *)

TopicInputs ==
    {<<>>, <<swapEventTopic>>, <<"Transfer">>, <<swapEventTopic, "Transfer">>,
     <<"Transfer", swapEventTopic>>}

(* Data of up to MaxWords 32-byte words, each 0, 1 or 2. *)
DataInputs == UNION {[1..n -> 0..2] : n \in 0..MaxWords}

SwapLogInputs ==
    {Log(a, t, d) : a \in {PoolP, PoolX}, t \in TopicInputs, d \in DataInputs}

(* The loop body of FindActualArbitrages on one log of a receipt. *)
ClassifyLog ==
    /\ calc.op = "log"
    /\ calc' = [op |-> "swapDirection", log |-> calc.log,
                dir |-> swapDirection(calc.log),
                poolSwaps |-> PoolSwaps(<<calc.log>>, EmptyMap)]
    /\ OthersUnchanged

InitClassify == IdleOthers /\ calc \in {[op |-> "log", log |-> l] : l \in SwapLogInputs}

NextClassify == ClassifyLog

SpecClassify == InitClassify /\ [][NextClassify]_vars

IsSwapLog(log) ==
    /\ Len(log.Topics) >= 1 /\ log.Topics[1] = swapEventTopic
    /\ Len(log.Data) >= 4

(* C34: swapDirection is +1 exactly for a Swap log with four amounts where *)
(* amount0In > 0, amount1Out > 0, amount1In = 0, amount0Out = 0; -1        *)
(* exactly in the mirror case; 0 in every other case; a log of direction 0 *)
(* does not count as a swap on its pool.                                   *)
C34_SwapDirection ==
    calc.op = "swapDirection" =>
        LET log == calc.log
            d == log.Data
        IN  /\ calc.dir = 1 <=>
                  (IsSwapLog(log) /\ d[1] > 0 /\ d[4] > 0 /\ d[2] = 0 /\ d[3] = 0)
            /\ calc.dir = -1 <=>
                  (IsSwapLog(log) /\ d[2] > 0 /\ d[3] > 0 /\ d[1] = 0 /\ d[4] = 0)
            /\ calc.dir \in {-1, 0, 1}
            /\ calc.dir = 0 => calc.poolSwaps = EmptyMap
            /\ Has(calc.poolSwaps, log.Address) => calc.poolSwaps[log.Address] = calc.dir

C34_Witness ==
    /\ calc.op = "swapDirection"
    /\ calc.dir = -1
    /\ Len(calc.log.Data) = 5
    /\ calc.log.Data[2] = 2
    /\ Has(calc.poolSwaps, PoolP)

----------------------------------------------------------------------------
(* DetectOpportunity called twice: on one PairPools with two gas settings, *)
(* and on two PairPools that share their first two pools.                  *)

VaryReserves == {50, 200, 1000}

(* gasPrice and gasLimit: zero, small, the scanners' and the runner's.     *)
GasInputs == {0, 5, 30} \X {0, 300}

(* The first two pools of a pair, and what follows them: nothing, or a     *)
(* third pool.                                                             *)
FirstTwo == [1..2 -> VaryReserves \X VaryReserves]

TailInputs == {<<>>, <<<<50, 200>>>>, <<<<1000, 50>>>>}

VaryInputs ==
    {[op |-> "gas", pair |-> PairPoolsOf(trackedPairs[k], r \o t), gas1 |-> g1, gas2 |-> g2] :
        k \in {1, 3}, r \in FirstTwo, t \in {<<>>},
        g1 \in GasInputs, g2 \in GasInputs}
    \cup
    {[op |-> "pools", pair1 |-> PairPoolsOf(trackedPairs[k], r \o t1),
      pair2 |-> PairPoolsOf(trackedPairs[k], r \o t2), gas |-> g] :
        k \in {1, 3}, r \in FirstTwo, t1 \in TailInputs, t2 \in TailInputs,
        g \in {<<5, 300>>}}

DetectWithGas ==
    /\ calc.op = "gas"
    /\ calc' = [op |-> "DetectWithGas", pair |-> calc.pair,
                gas1 |-> calc.gas1, gas2 |-> calc.gas2,
                out1 |-> DetectOpportunityAt(calc.pair, calc.gas1[1], calc.gas1[2]),
                out2 |-> DetectOpportunityAt(calc.pair, calc.gas2[1], calc.gas2[2])]
    /\ OthersUnchanged

DetectWithPools ==
    /\ calc.op = "pools"
    /\ calc' = [op |-> "DetectWithPools", pair1 |-> calc.pair1, pair2 |-> calc.pair2,
                out1 |-> DetectOpportunityAt(calc.pair1, calc.gas[1], calc.gas[2]),
                out2 |-> DetectOpportunityAt(calc.pair2, calc.gas[1], calc.gas[2])]
    /\ OthersUnchanged

InitVary == IdleOthers /\ calc \in VaryInputs

NextVary == DetectWithGas \/ DetectWithPools

SpecVary == InitVary /\ [][NextVary]_vars

C39_FirstTwoPools ==
    calc.op = "DetectWithPools" =>
        /\ calc.out1 = calc.out2
        /\ ~calc.out1.opp.nil =>
              {<<calc.out1.opp.BuyPool, calc.out1.opp.SellPool>>}
                  \subseteq {<<calc.pair1.Pools[1], calc.pair1.Pools[2]>>,
                             <<calc.pair1.Pools[2], calc.pair1.Pools[1]>>}

(* A pair with a third pool of a far better price than the first two, and  *)
(* the pair without it: the opportunity is between the first two in both.  *)
C39_Witness ==
    /\ calc.op = "DetectWithPools"
    /\ Len(calc.pair1.Pools) = 3 /\ Len(calc.pair2.Pools) = 2
    /\ calc.pair1.Pools[3].Reserve0 = 1000 /\ calc.pair1.Pools[3].Reserve1 = 50
    /\ calc.pair1.Pools[1].Reserve0 = 200 /\ calc.pair1.Pools[1].Reserve1 = 200
    /\ ~calc.out1.opp.nil
    /\ calc.out1.opp.SellPool = calc.pair1.Pools[2]
    /\ calc.out2.opp.SellPool = calc.pair2.Pools[2]

====
